---- MODULE Spec2Model ----
(***************************************************************************)
(* A model of the two compliance gates of spec-compiler:                   *)
(*   - the taste evaluator  (src/src/rules/taste/index.ts), and            *)
(*   - the renderer contract validator (src/src/utils/renderer-contract.ts)*)
(* together with the two command adapters that drive them                  *)
(* (src/src/stages/taste.ts, src/src/stages/renderer-validate.ts).         *)
(*                                                                         *)
(* The evaluators are pure functions of in-memory documents; they are      *)
(* operators here.  The adapters are the state machine: locate the files,  *)
(* read them, evaluate, write the report, set the exit code.               *)
(***************************************************************************)
EXTENDS Integers, Sequences, FiniteSets, TLC

(***************************************************************************)
(* JavaScript values.  A value whose TypeScript type is a union, or which  *)
(* may be undefined or null, is a record tagged with its typeof; `str` is  *)
(* what String(value) and template interpolation give.                     *)
(***************************************************************************)
Undefined == [type |-> "undefined"]

Null == [type |-> "null"]

JNum(n) == [type |-> "number", num |-> n, str |-> ToString(n)]

JStr(s) == [type |-> "string", num |-> 0, str |-> s]

\* x ?? y and x?.f test for exactly these two values.
Nullish(x) == x.type \in {"undefined", "null"}

Min(S) == CHOOSE x \in S : \A y \in S : x <= y

Max(S) == CHOOSE x \in S : \A y \in S : x >= y

Range(seq) == {seq[i] : i \in 1..Len(seq)}

\* Array.prototype.join
RECURSIVE Join(_, _)
Join(seq, sep) ==
  IF Len(seq) = 0 THEN ""
  ELSE IF Len(seq) = 1 THEN seq[1]
  ELSE seq[1] \o sep \o Join(Tail(seq), sep)

\* Array.from(new Set(seq)): first occurrences, in insertion order.
RECURSIVE Dedupe(_)
Dedupe(seq) ==
  IF Len(seq) = 0 THEN <<>>
  ELSE LET init == Dedupe(SubSeq(seq, 1, Len(seq) - 1))
           last == seq[Len(seq)]
       IN IF last \in Range(init) THEN init ELSE Append(init, last)

\* Array.prototype.map over String(value)
StringsOf(values) == [i \in 1..Len(values) |-> values[i].str]

(***************************************************************************)
(* Taste evaluator: rule metadata and results.                             *)
(***************************************************************************)
\* The rule ids in the order evaluateTaste evaluates them.
TASTE_RULE_IDS ==
  << "typography.max-sizes.rule",
     "typography.hierarchy.rule",
     "spacing.allowed-values.rule",
     "spacing.variance.rule",
     "color.allowed.rule",
     "color.contrast.rule",
     "density.limit.rule",
     "consistency.allowed.rule",
     "consistency.variance.rule",
     "patterns.intent.rule" >>

\* getRuleMeta that never consults the catalog.
getRuleMeta_placeholderOnly(id, ruleset) ==
  [id |-> id,
   description |-> "Rule metadata not found; update ruleset.",
   clause |-> "unspecified",
   intent_reference |-> "unspecified",
   remediation |-> "Review rule definition."]

getRuleMeta(id, ruleset) ==
  LET hits == {i \in 1..Len(ruleset.rules) : ruleset.rules[i].id = id}
  IN IF hits # {}
     THEN ruleset.rules[Min(hits)]
     ELSE [id |-> id,
           description |-> "Rule metadata not found; update ruleset.",
           clause |-> "unspecified",
           intent_reference |-> "unspecified",
           remediation |-> "Review rule definition."]

\* buildResult attaching the message as counterexample to every result.
buildResult_messageAsCounterexample(meta, passed, message, counterexample) ==
  [id |-> meta.id,
   passed |-> passed,
   message |-> message,
   description |-> meta.description,
   clause |-> meta.clause,
   intent_reference |-> meta.intent_reference,
   remediation |-> meta.remediation,
   counterexample |-> JStr(message)]

buildResult(meta, passed, message, counterexample) ==
  [id |-> meta.id,
   passed |-> passed,
   message |-> message,
   description |-> meta.description,
   clause |-> meta.clause,
   intent_reference |-> meta.intent_reference,
   remediation |-> meta.remediation,
   counterexample |-> counterexample]

\* buildResult(meta, passed, message, passed ? undefined : message)
resultOf(id, ruleset, passed, message) ==
  buildResult(getRuleMeta(id, ruleset), passed, message,
              IF passed THEN Undefined ELSE JStr(message))

checkAllowedValues(band, values) ==
  LET allowedSet == Dedupe(StringsOf(band.allowed_values))
      bad == {i \in 1..Len(values) : values[i].str \notin Range(allowedSet)}
  IN IF bad = {}
     THEN Null
     ELSE JStr(values[Min(bad)].str \o " not in allowed set: "
               \o Join(allowedSet, ", "))

\* checkVariance rejecting a variance equal to max_variance.
checkVariance_strict(band, values) ==
  IF band.max_variance.type = "undefined" \/ Len(values) = 0
  THEN Null
  ELSE LET maxVariance == band.max_variance.num
       IN IF values[1].type = "number"
          THEN LET nums == {values[i].num : i \in 1..Len(values)}
                   variance == Max(nums) - Min(nums)
               IN IF variance >= maxVariance
                  THEN JStr("variance " \o ToString(variance)
                            \o " exceeds max_variance " \o ToString(maxVariance))
                  ELSE Null
          ELSE LET uniqueCount == Cardinality(Range(StringsOf(values)))
               IN IF uniqueCount > 1 /\ maxVariance = 0
                  THEN JStr("multiple values present but max_variance is "
                            \o ToString(maxVariance))
                  ELSE Null

checkVariance(band, values) ==
  IF band.max_variance.type = "undefined" \/ Len(values) = 0
  THEN Null
  ELSE LET maxVariance == band.max_variance.num
       IN IF values[1].type = "number"
          THEN LET nums == {values[i].num : i \in 1..Len(values)}
                   variance == Max(nums) - Min(nums)
               IN IF variance > maxVariance
                  THEN JStr("variance " \o ToString(variance)
                            \o " exceeds max_variance " \o ToString(maxVariance))
                  ELSE Null
          ELSE LET uniqueCount == Cardinality(Range(StringsOf(values)))
               IN IF uniqueCount > 1 /\ maxVariance = 0
                  THEN JStr("multiple values present but max_variance is "
                            \o ToString(maxVariance))
                  ELSE Null

\* a || b || c over string-or-null values
FirstError(a, b, c) ==
  IF a.type = "string" /\ a.str # "" THEN a
  ELSE IF b.type = "string" /\ b.str # "" THEN b
  ELSE c

Truthy(x) == x.type = "string" /\ x.str # ""

(***************************************************************************)
(* The ten taste rules, each the result evaluateTaste pushes for it.       *)
(***************************************************************************)
\* Typography: max sizes
typographyMaxSizes(manifest, constitution, ruleset) ==
  LET roles == manifest.taste.typography.roles
      sizes == {roles[i].size : i \in 1..Len(roles)}
      allowed == constitution.typography.max_font_sizes
      passed == Cardinality(sizes) <= allowed
      message == IF passed
                 THEN "Typography size count within allowed maximum."
                 ELSE "Used " \o ToString(Cardinality(sizes))
                      \o " font sizes; allowed maximum is "
                      \o ToString(allowed) \o "."
  IN resultOf("typography.max-sizes.rule", ruleset, passed, message)

\* roleDefs.find((entry) => entry.name === name): the index, 0 when none
findRoleDef(roleDefs, name) ==
  LET hits == {i \in 1..Len(roleDefs) : roleDefs[i].name = name}
  IN IF hits = {} THEN 0 ELSE Min(hits)

\* The range loop with exclusive bounds.
rangeCounterexample_exclusive(declaredRoles, roleDefs) ==
  LET bad == {i \in 1..Len(declaredRoles) :
                LET d == findRoleDef(roleDefs, declaredRoles[i].role)
                IN \/ d = 0
                   \/ declaredRoles[i].size <= roleDefs[d].min
                   \/ declaredRoles[i].size >= roleDefs[d].max}
  IN IF bad = {}
     THEN Undefined
     ELSE LET role == declaredRoles[Min(bad)]
              d == findRoleDef(roleDefs, role.role)
          IN IF d = 0
             THEN JStr("Role '" \o role.role \o "' is not defined in constitution.")
             ELSE JStr("Role '" \o role.role \o "' size " \o ToString(role.size)
                       \o " outside " \o ToString(roleDefs[d].min) \o "-"
                       \o ToString(roleDefs[d].max) \o ".")

\* The first loop of the hierarchy rule: the counterexample of the first
\* declared role that is undefined or out of range; Undefined when none.
rangeCounterexample(declaredRoles, roleDefs) ==
  LET bad == {i \in 1..Len(declaredRoles) :
                LET d == findRoleDef(roleDefs, declaredRoles[i].role)
                IN \/ d = 0
                   \/ declaredRoles[i].size < roleDefs[d].min
                   \/ declaredRoles[i].size > roleDefs[d].max}
  IN IF bad = {}
     THEN Undefined
     ELSE LET role == declaredRoles[Min(bad)]
              d == findRoleDef(roleDefs, role.role)
          IN IF d = 0
             THEN JStr("Role '" \o role.role \o "' is not defined in constitution.")
             ELSE JStr("Role '" \o role.role \o "' size " \o ToString(role.size)
                       \o " outside " \o ToString(roleDefs[d].min) \o "-"
                       \o ToString(roleDefs[d].max) \o ".")

\* sizeByRole.get(roleName): the size of the first declared entry of that
\* role, Undefined when the role is not declared.
sizeByRole(declaredRoles, roleName) ==
  LET hits == {i \in 1..Len(declaredRoles) : declaredRoles[i].role = roleName}
  IN IF hits = {} THEN Undefined ELSE JNum(declaredRoles[Min(hits)].size)

\* The second loop: the first index i of the hierarchy whose entry is
\* smaller than the entry at i + 1, both declared.
orderCounterexample(declaredRoles, hierarchy) ==
  LET bad == {i \in 1..(Len(hierarchy) - 1) :
                LET current == sizeByRole(declaredRoles, hierarchy[i])
                    next == sizeByRole(declaredRoles, hierarchy[i + 1])
                IN /\ current.type # "undefined"
                   /\ next.type # "undefined"
                   /\ current.num < next.num}
  IN IF bad = {}
     THEN Undefined
     ELSE LET i == Min(bad)
              current == sizeByRole(declaredRoles, hierarchy[i])
              next == sizeByRole(declaredRoles, hierarchy[i + 1])
          IN JStr(hierarchy[i] \o " (" \o current.str
                  \o ") should not be smaller than " \o hierarchy[i + 1]
                  \o " (" \o next.str \o ").")

\* Typography hierarchy and ranges
typographyHierarchy(manifest, constitution, ruleset) ==
  LET roleDefs == constitution.typography.roles
      hierarchy == constitution.typography.hierarchy
      declaredRoles == manifest.taste.typography.roles
      ranges == rangeCounterexample(declaredRoles, roleDefs)
      counterexample ==
        IF ranges.type # "undefined" THEN ranges
        ELSE IF Len(hierarchy) > 1
             THEN orderCounterexample(declaredRoles, hierarchy)
             ELSE Undefined
      passed == counterexample.type = "undefined"
      message == IF passed
                 THEN "Typography roles satisfy hierarchy ranges."
                 ELSE IF Truthy(counterexample)
                      THEN counterexample.str
                      ELSE "Typography hierarchy violated."
  IN resultOf("typography.hierarchy.rule", ruleset, passed, message)

\* Spacing allowed values
spacingAllowedValues(manifest, constitution, ruleset) ==
  LET allowed == Range(constitution.spacing.allowed_values)
      values == manifest.taste.spacing.values
      bad == {i \in 1..Len(values) : values[i] \notin allowed}
      passed == bad = {}
      message == IF passed
                 THEN "Spacing values are enumerated in the constitution."
                 ELSE "Spacing value " \o ToString(values[Min(bad)])
                      \o " not allowed."
  IN resultOf("spacing.allowed-values.rule", ruleset, passed, message)

\* Spacing variance
spacingVariance(manifest, constitution, ruleset) ==
  LET values == manifest.taste.spacing.values
      variance == IF Len(values) > 0
                  THEN Max(Range(values)) - Min(Range(values))
                  ELSE 0
      allowedVariance == constitution.spacing.max_variance
      passed == variance <= allowedVariance
      message == IF passed
                 THEN "Spacing variance within allowed range."
                 ELSE "Spacing variance " \o ToString(variance)
                      \o " exceeds allowed " \o ToString(allowedVariance) \o "."
  IN resultOf("spacing.variance.rule", ruleset, passed, message)

\* Color allowed tokens
colorAllowed(manifest, constitution, ruleset) ==
  LET allowed == Range(constitution.color.allowed_tokens)
      tokens == manifest.taste.color.tokens
      bad == {i \in 1..Len(tokens) : tokens[i] \notin allowed}
      passed == bad = {}
      message == IF passed
                 THEN "All colors mapped to allowed tokens."
                 ELSE "Color token '" \o tokens[Min(bad)] \o "' is not allowed."
  IN resultOf("color.allowed.rule", ruleset, passed, message)

\* Color contrast floor
colorContrast(manifest, constitution, ruleset) ==
  LET floor == constitution.color.contrast_floor
      contrast == manifest.taste.color.contrast
      bad == {i \in 1..Len(contrast) : contrast[i].ratio < floor}
      passed == bad = {}
      message == IF passed
                 THEN "All contrast ratios meet the floor."
                 ELSE "Contrast ratio " \o ToString(contrast[Min(bad)].ratio)
                      \o " for " \o contrast[Min(bad)].pair
                      \o " below floor " \o ToString(floor) \o "."
  IN resultOf("color.contrast.rule", ruleset, passed, message)

\* The limit with a missing declaration read as no limit at all.
intentLimitOf_unlimited(intent) ==
  IF Nullish(intent.density) \/ Nullish(intent.density.max_interactions_per_view)
  THEN JNum(1000)
  ELSE intent.density.max_interactions_per_view

\* intent.density?.max_interactions_per_view
intentLimitOf(intent) ==
  IF Nullish(intent.density)
  THEN Undefined
  ELSE intent.density.max_interactions_per_view

\* Density limit (intent)
densityLimit(manifest, intent, ruleset) ==
  LET intentLimit == intentLimitOf(intent)
  IN IF intentLimit.type = "undefined" \/ intentLimit.type = "null"
     THEN buildResult(getRuleMeta("density.limit.rule", ruleset), FALSE,
                      "Design intent missing density limit.",
                      JStr("Design intent missing density limit."))
     ELSE LET actual == manifest.taste.density.interactions_per_view
              passed == actual <= intentLimit.num
              message == IF passed
                         THEN "Interaction density within intent limits."
                         ELSE "Interactions per view " \o ToString(actual)
                              \o " exceeds intent limit " \o intentLimit.str \o "."
          IN resultOf("density.limit.rule", ruleset, passed, message)

\* Consistency allowed values
consistencyAllowed(manifest, constitution, ruleset) ==
  LET consistency == manifest.taste.consistency
      bands == constitution.consistency
      firstError == FirstError(checkAllowedValues(bands.radius, consistency.radius),
                               checkAllowedValues(bands.elevation, consistency.elevation),
                               checkAllowedValues(bands.motion, consistency.motion))
      passed == ~Truthy(firstError)
      message == IF passed
                 THEN "Consistency values align with allowed sets."
                 ELSE firstError.str
  IN resultOf("consistency.allowed.rule", ruleset, passed, message)

\* Consistency variance
consistencyVariance(manifest, constitution, ruleset) ==
  LET consistency == manifest.taste.consistency
      bands == constitution.consistency
      firstError == FirstError(checkVariance(bands.radius, consistency.radius),
                               checkVariance(bands.elevation, consistency.elevation),
                               checkVariance(bands.motion, consistency.motion))
      passed == ~Truthy(firstError)
      message == IF passed
                 THEN "Consistency variance within limits."
                 ELSE firstError.str
  IN resultOf("consistency.variance.rule", ruleset, passed, message)

\* allowedIntents as the union of the intent's list and the constitution's.
allowedIntentsOf_unioned(intent, constitution, pattern) ==
  (IF ~Nullish(intent.allowed_patterns)
      /\ pattern \in DOMAIN intent.allowed_patterns.entries
   THEN intent.allowed_patterns.entries[pattern]
   ELSE <<>>)
  \o (IF ~Nullish(constitution.patterns.intents)
         /\ pattern \in DOMAIN constitution.patterns.intents.entries
      THEN constitution.patterns.intents.entries[pattern]
      ELSE <<>>)

\* intent.allowed_patterns?.[p] ?? constitution.patterns.intents?.[p] ?? []
\* A Record<string, string[]> is a function whose domain is its keys.
allowedIntentsOf(intent, constitution, pattern) ==
  IF ~Nullish(intent.allowed_patterns)
     /\ pattern \in DOMAIN intent.allowed_patterns.entries
  THEN intent.allowed_patterns.entries[pattern]
  ELSE IF ~Nullish(constitution.patterns.intents)
          /\ pattern \in DOMAIN constitution.patterns.intents.entries
       THEN constitution.patterns.intents.entries[pattern]
       ELSE <<>>

\* One pass of the loop over usage: the counterexample of one entry,
\* Undefined when the entry is authorized.
usageCounterexample(entry, constitution, intent) ==
  IF Nullish(constitution.patterns)
  THEN JStr("Constitution patterns not provided; cannot authorize usage.")
  ELSE IF entry.pattern \notin Range(constitution.patterns.allowed)
  THEN JStr("Pattern '" \o entry.pattern \o "' is not allowed by constitution.")
  ELSE LET allowedIntents == allowedIntentsOf(intent, constitution, entry.pattern)
       IN IF entry.intent \notin Range(allowedIntents)
          THEN JStr("Pattern '" \o entry.pattern \o "' not permitted for intent '"
                    \o entry.intent \o "'. Allowed: " \o Join(allowedIntents, ", "))
          ELSE Undefined

\* The patterns rule walking every usage and keeping the last violation.
patternsIntent_lastViolation(manifest, constitution, intent, ruleset) ==
  LET usage == manifest.taste.patterns.usage
      bad == {i \in 1..Len(usage) :
                usageCounterexample(usage[i], constitution, intent).type # "undefined"}
      passed == bad = {}
      message == IF passed
                 THEN "Pattern usage aligns with intent and constitution."
                 ELSE usageCounterexample(usage[Max(bad)], constitution, intent).str
  IN resultOf("patterns.intent.rule", ruleset, passed, message)

\* Patterns vs intent and constitution
patternsIntent(manifest, constitution, intent, ruleset) ==
  LET usage == manifest.taste.patterns.usage
      bad == {i \in 1..Len(usage) :
                usageCounterexample(usage[i], constitution, intent).type # "undefined"}
      passed == bad = {}
      message == IF passed
                 THEN "Pattern usage aligns with intent and constitution."
                 ELSE usageCounterexample(usage[Min(bad)], constitution, intent).str
  IN resultOf("patterns.intent.rule", ruleset, passed, message)

(***************************************************************************)
(* evaluateTaste: the ten blocks in order, each pushing its result and     *)
(* returning early when addResult says so.                                 *)
(***************************************************************************)
JBool(b) == [type |-> "boolean", bool |-> b]

\* options.x ?? dflt
OrDefault(x, dflt) == IF Nullish(x) THEN dflt ELSE x.bool

\* addResult stopping on any result, passed or not.
addResult_anyResult(result, failFast, verbose) ==
  failFast /\ ~verbose

\* addResult with the test of verbose inverted.
addResult_verboseInverted(result, failFast, verbose) ==
  ~result.passed /\ failFast /\ verbose

\* addResult without the test of verbose.
addResult_ignoresVerbose(result, failFast, verbose) ==
  ~result.passed /\ failFast

\* What addResult returns once it has pushed `result` (shouldStop).
addResult(result, failFast, verbose) ==
  ~result.passed /\ failFast /\ ~verbose

rendererOf(manifest) ==
  [name |-> manifest.renderer.name,
   version |-> manifest.renderer.version,
   target |-> manifest.renderer.target]

failingRules(results) == SelectSeq(results, LAMBDA rule : ~rule.passed)

\* The early return with errors left unfiltered.
earlyTasteReport_unfiltered(manifest, ruleset, results, now) ==
  [status |-> "failed",
   generated_at |-> now,
   renderer |-> rendererOf(manifest),
   ruleset_version |-> ruleset.version,
   rules |-> results,
   errors |-> results]

\* The report of the `if (shouldStop) return {...}` of each block.
earlyTasteReport(manifest, ruleset, results, now) ==
  [status |-> "failed",
   generated_at |-> now,
   renderer |-> rendererOf(manifest),
   ruleset_version |-> ruleset.version,
   rules |-> results,
   errors |-> failingRules(results)]

\* The final report with each message stamped with the time of the run.
finalTasteReport_stamped(manifest, ruleset, results, now) ==
  LET stamped == [i \in 1..Len(results) |->
                    [results[i] EXCEPT !.message = @ \o " (" \o now \o ")"]]
      errors == failingRules(stamped)
  IN [status |-> IF Len(errors) = 0 THEN "passed" ELSE "failed",
      generated_at |-> now,
      renderer |-> rendererOf(manifest),
      ruleset_version |-> ruleset.version,
      rules |-> stamped,
      errors |-> errors]

\* The report of the final return.
finalTasteReport(manifest, ruleset, results, now) ==
  LET errors == failingRules(results)
  IN [status |-> IF Len(errors) = 0 THEN "passed" ELSE "failed",
      generated_at |-> now,
      renderer |-> rendererOf(manifest),
      ruleset_version |-> ruleset.version,
      rules |-> results,
      errors |-> errors]

\* The ten blocks with the density limit taken from the constitution
\* instead of the intent.
tasteRuleResults_constitutionDensity(manifest, constitution, intent, ruleset) ==
  << typographyMaxSizes(manifest, constitution, ruleset),
     typographyHierarchy(manifest, constitution, ruleset),
     spacingAllowedValues(manifest, constitution, ruleset),
     spacingVariance(manifest, constitution, ruleset),
     colorAllowed(manifest, constitution, ruleset),
     colorContrast(manifest, constitution, ruleset),
     densityLimit(manifest,
                  [intent EXCEPT !.density =
                     [type |-> "object",
                      max_interactions_per_view |->
                        JNum(constitution.density.max_interactions_per_view)]],
                  ruleset),
     consistencyAllowed(manifest, constitution, ruleset),
     consistencyVariance(manifest, constitution, ruleset),
     patternsIntent(manifest, constitution, intent, ruleset) >>

\* The result of each block, in the order of the blocks.
tasteRuleResults(manifest, constitution, intent, ruleset) ==
  << typographyMaxSizes(manifest, constitution, ruleset),
     typographyHierarchy(manifest, constitution, ruleset),
     spacingAllowedValues(manifest, constitution, ruleset),
     spacingVariance(manifest, constitution, ruleset),
     colorAllowed(manifest, constitution, ruleset),
     colorContrast(manifest, constitution, ruleset),
     densityLimit(manifest, intent, ruleset),
     consistencyAllowed(manifest, constitution, ruleset),
     consistencyVariance(manifest, constitution, ruleset),
     patternsIntent(manifest, constitution, intent, ruleset) >>

\* Blocks 1..9 test shouldStop; the last block (patterns) ignores it.
LastStoppingBlock == 9

\* evaluateTaste returning one block after the one that asked to stop.
evaluateTaste_stopsOneLate(manifest, constitution, intent, options, ruleset, now) ==
  LET failFast == OrDefault(options.failFast, TRUE)
      verbose == OrDefault(options.verbose, FALSE)
      all == tasteRuleResults(manifest, constitution, intent, ruleset)
      stops == {k \in 1..LastStoppingBlock : addResult(all[k], failFast, verbose)}
  IN IF stops # {}
     THEN earlyTasteReport(manifest, ruleset, SubSeq(all, 1, Min(stops) + 1), now)
     ELSE finalTasteReport(manifest, ruleset, all, now)

\* `ruleset` is what loadRuleset reads at options.rulesetPath; `now` is
\* new Date().toISOString() at the return.
evaluateTaste(manifest, constitution, intent, options, ruleset, now) ==
  LET failFast == OrDefault(options.failFast, TRUE)
      verbose == OrDefault(options.verbose, FALSE)
      all == tasteRuleResults(manifest, constitution, intent, ruleset)
      stops == {k \in 1..LastStoppingBlock : addResult(all[k], failFast, verbose)}
  IN IF stops # {}
     THEN earlyTasteReport(manifest, ruleset, SubSeq(all, 1, Min(stops)), now)
     ELSE finalTasteReport(manifest, ruleset, all, now)

(***************************************************************************)
(* Renderer contract validator.                                            *)
(***************************************************************************)
ruleResult(id, passed, message, counterexample) ==
  [id |-> id, passed |-> passed, message |-> message,
   counterexample |-> counterexample]

\* An instance path "/a/b" is the sequence <<"a", "b">> of its segments;
\* "/" becomes "." and the leading "." is dropped.
formatInstancePath(instancePath) ==
  IF Len(instancePath) = 0 THEN "(root)" ELSE Join(instancePath, ".")

\* One ErrorObject: instancePath, keyword, params.additionalProperty ("" when
\* absent) and message ("" when absent).  No message of the schema validator
\* starts or ends with white space, so trim() leaves the text as it is.
formatSchemaError(error) ==
  LET basePath == formatInstancePath(error.instancePath)
  IN IF error.keyword = "additionalProperties" /\ error.additionalProperty # ""
     THEN (IF basePath = "(root)"
           THEN error.additionalProperty
           ELSE basePath \o "." \o error.additionalProperty) \o " is not allowed"
     ELSE basePath \o " " \o (IF error.message # "" THEN error.message ELSE "is invalid")

formatSchemaErrors(errors) ==
  [i \in 1..Len(errors) |-> formatSchemaError(errors[i])]

\* errors[0]: undefined when the list is empty
FirstOf(strings) == IF Len(strings) = 0 THEN Undefined ELSE JStr(strings[1])

unknownRenderer ==
  [name |-> "unknown", version |-> "unknown", target |-> "unknown"]

\* A raw document carries the errors the compiled schema validator reports
\* for it (none when it is valid) beside its content.
schemaValid(raw) == Len(raw.schemaErrors) = 0

manifestSchemaRule(manifestRaw) ==
  LET manifestValid == schemaValid(manifestRaw)
      manifestErrors == formatSchemaErrors(manifestRaw.schemaErrors)
  IN ruleResult("renderer-manifest.schema", manifestValid,
       IF manifestValid
       THEN "Renderer manifest matches contracts/renderer-contract.schema.json."
       ELSE "Renderer manifest fails contracts/renderer-contract.schema.json validation.",
       IF manifestValid THEN Undefined ELSE FirstOf(manifestErrors))

registrySchemaRule(registryRaw) ==
  LET registryValid == schemaValid(registryRaw)
      registryErrors == formatSchemaErrors(registryRaw.schemaErrors)
  IN ruleResult("renderer-registry.schema", registryValid,
       IF registryValid
       THEN "Renderer registry matches contracts/renderer-registry.schema.json."
       ELSE "Renderer registry fails contracts/renderer-registry.schema.json validation.",
       IF registryValid THEN Undefined ELSE FirstOf(registryErrors))

contractDeclaredRule(manifest) ==
  LET contractDeclared == manifest.renderer.declares_contract = manifest.contract.id
  IN ruleResult("renderer-contract.declared.rule", contractDeclared,
       IF contractDeclared
       THEN "Renderer declares the active renderer contract."
       ELSE "Renderer declares a contract that does not match the manifest contract.",
       IF contractDeclared
       THEN Undefined
       ELSE JStr("declares_contract=" \o manifest.renderer.declares_contract
                 \o ", contract.id=" \o manifest.contract.id))

\* A match on name and target, whatever the version.
entryMatches_anyVersion(entry, manifest) ==
  /\ entry.name = manifest.renderer.name
  /\ entry.target = manifest.renderer.target

\* Whether a registry entry is the manifest's renderer.
entryMatches(entry, manifest) ==
  /\ entry.name = manifest.renderer.name
  /\ entry.version = manifest.renderer.version
  /\ entry.target = manifest.renderer.target

\* registry.renderers.find(...): the first matching entry, Undefined when none
registeredRendererOf(manifest, registry) ==
  LET hits == {i \in 1..Len(registry.renderers) :
                 entryMatches(registry.renderers[i], manifest)}
  IN IF hits = {}
     THEN Undefined
     ELSE [type |-> "object", entry |-> registry.renderers[Min(hits)]]

registrationRule(manifest, registry) ==
  LET rendererRegistered == registeredRendererOf(manifest, registry).type = "object"
  IN ruleResult("renderer-registration.rule", rendererRegistered,
       IF rendererRegistered
       THEN "Renderer is registered for this target and version."
       ELSE "Renderer is not registered; add it to config/renderer-registry.json.",
       IF rendererRegistered
       THEN Undefined
       ELSE JStr(manifest.renderer.name \o "@" \o manifest.renderer.version
                 \o " target=" \o manifest.renderer.target))

\* The registry rule formatting its counterexample from the found entry
\* without testing that there is one.
registryContractRule_mismatchOnly(manifest, registry) ==
  LET registeredRenderer == registeredRendererOf(manifest, registry)
      rendererRegistered == registeredRenderer.type = "object"
      registryContractMatch ==
        rendererRegistered
        /\ registeredRenderer.entry.contract_id = manifest.contract.id
  IN ruleResult("renderer-contract.registry.rule", registryContractMatch,
       IF registryContractMatch
       THEN "Renderer registry contract matches the manifest contract."
       ELSE "Renderer registry contract does not match the manifest contract.",
       IF registryContractMatch
       THEN Undefined
       ELSE JStr("registry.contract_id="
                 \o (IF rendererRegistered
                     THEN registeredRenderer.entry.contract_id
                     ELSE "undefined")
                 \o ", manifest.contract.id=" \o manifest.contract.id))

registryContractRule(manifest, registry) ==
  LET registeredRenderer == registeredRendererOf(manifest, registry)
      rendererRegistered == registeredRenderer.type = "object"
      registryContractMatch ==
        rendererRegistered
        /\ registeredRenderer.entry.contract_id = manifest.contract.id
  IN ruleResult("renderer-contract.registry.rule", registryContractMatch,
       IF registryContractMatch
       THEN "Renderer registry contract matches the manifest contract."
       ELSE "Renderer registry contract does not match the manifest contract.",
       IF registryContractMatch
       THEN Undefined
       ELSE IF rendererRegistered
            THEN JStr("registry.contract_id=" \o registeredRenderer.entry.contract_id
                      \o ", manifest.contract.id=" \o manifest.contract.id)
            ELSE JStr("Renderer entry missing from registry."))

tokenUsageRule(manifest) ==
  LET undeclaredTokens == manifest.outputs.token_usage.undeclared
      tokenUsageValid == Len(undeclaredTokens) = 0
  IN ruleResult("token-usage.declared.rule", tokenUsageValid,
       IF tokenUsageValid
       THEN "Token usage is fully declared."
       ELSE "Undeclared token usage detected; declare all tokens or remove undeclared usage.",
       IF tokenUsageValid THEN Undefined ELSE FirstOf(undeclaredTokens))

constitutionComplianceRule(manifest) ==
  LET constitutionViolations == manifest.outputs.constitution.violations
      constitutionValid == Len(constitutionViolations) = 0
  IN ruleResult("constitution-compliance.rule", constitutionValid,
       IF constitutionValid
       THEN "No constitution violations reported."
       ELSE "Renderer reports constitution violations; resolve them before compiling.",
       IF constitutionValid THEN Undefined ELSE FirstOf(constitutionViolations))

\* The determinism rule looking at the flag alone.
deterministicOutputRule_flagOnly(manifest) ==
  LET determinismMarkers == manifest.outputs.determinism.markers
      deterministicFlag == manifest.outputs.determinism.deterministic
      determinismValid == deterministicFlag = TRUE
  IN ruleResult("deterministic-output.rule", determinismValid,
       IF determinismValid
       THEN "Renderer output is marked deterministic and free of nondeterminism markers."
       ELSE "Renderer output is marked nondeterministic; remove markers or set deterministic=true.",
       IF determinismValid
       THEN Undefined
       ELSE IF Len(determinismMarkers) > 0
            THEN FirstOf(determinismMarkers)
            ELSE JStr("deterministic=false"))

\* The determinism rule reporting the flag whatever made it fail.
deterministicOutputRule_flagCounterexample(manifest) ==
  LET determinismMarkers == manifest.outputs.determinism.markers
      deterministicFlag == manifest.outputs.determinism.deterministic
      determinismValid == deterministicFlag = TRUE /\ Len(determinismMarkers) = 0
  IN ruleResult("deterministic-output.rule", determinismValid,
       IF determinismValid
       THEN "Renderer output is marked deterministic and free of nondeterminism markers."
       ELSE "Renderer output is marked nondeterministic; remove markers or set deterministic=true.",
       IF determinismValid THEN Undefined ELSE JStr("deterministic=false"))

deterministicOutputRule(manifest) ==
  LET determinismMarkers == manifest.outputs.determinism.markers
      deterministicFlag == manifest.outputs.determinism.deterministic
      determinismValid == deterministicFlag = TRUE /\ Len(determinismMarkers) = 0
  IN ruleResult("deterministic-output.rule", determinismValid,
       IF determinismValid
       THEN "Renderer output is marked deterministic and free of nondeterminism markers."
       ELSE "Renderer output is marked nondeterministic; remove markers or set deterministic=true.",
       IF determinismValid
       THEN Undefined
       ELSE IF Len(determinismMarkers) > 0
            THEN FirstOf(determinismMarkers)
            ELSE JStr("deterministic=false"))

\* The semantic rules cut after the first one that fails.
semanticRules_stopAtFirstFailure(manifest, registry) ==
  LET all == << contractDeclaredRule(manifest),
                registrationRule(manifest, registry),
                registryContractRule(manifest, registry),
                tokenUsageRule(manifest),
                constitutionComplianceRule(manifest),
                deterministicOutputRule(manifest) >>
      failing == {i \in 1..Len(all) : ~all[i].passed}
  IN IF failing = {} THEN all ELSE SubSeq(all, 1, Min(failing))

\* The six rules pushed once both documents are schema-valid, in order.
semanticRules(manifest, registry) ==
  << contractDeclaredRule(manifest),
     registrationRule(manifest, registry),
     registryContractRule(manifest, registry),
     tokenUsageRule(manifest),
     constitutionComplianceRule(manifest),
     deterministicOutputRule(manifest) >>

\* The return of `if (!manifestValid || !registryValid)`.
invalidSchemaReport(rules, now) ==
  [status |-> "failed",
   generated_at |-> now,
   renderer |-> unknownRenderer,
   rules |-> rules,
   errors |-> failingRules(rules)]

\* The final return.
rendererReport(manifest, rules, now) ==
  LET errors == failingRules(rules)
  IN [status |-> IF Len(errors) = 0 THEN "passed" ELSE "failed",
      generated_at |-> now,
      renderer |-> rendererOf(manifest),
      rules |-> rules,
      errors |-> errors]

\* The early return taken on an invalid manifest only.
buildRendererValidationReport_manifestOnly(manifestRaw, registryRaw, now) ==
  LET schemaRules == << manifestSchemaRule(manifestRaw),
                        registrySchemaRule(registryRaw) >>
  IN IF ~schemaValid(manifestRaw)
     THEN invalidSchemaReport(schemaRules, now)
     ELSE rendererReport(manifestRaw.content,
                         schemaRules \o semanticRules(manifestRaw.content,
                                                      registryRaw.content),
                         now)

buildRendererValidationReport(manifestRaw, registryRaw, now) ==
  LET schemaRules == << manifestSchemaRule(manifestRaw),
                        registrySchemaRule(registryRaw) >>
  IN IF ~schemaValid(manifestRaw) \/ ~schemaValid(registryRaw)
     THEN invalidSchemaReport(schemaRules, now)
     ELSE rendererReport(manifestRaw.content,
                         schemaRules \o semanticRules(manifestRaw.content,
                                                      registryRaw.content),
                         now)

(***************************************************************************)
(* The documents the commands are run on.  Every set below is a bounded    *)
(* sample of what the files may hold.                                      *)
(***************************************************************************)
\* Longest declared typography role list.
MaxRoles == 2

\* Longest declared pattern usage list.
MaxUsage == 2

\* Longest registry.
MaxRegistry == 2

\* All sequences over S of length at most n.
SeqsUpTo(S, n) == UNION {[1..k -> S] : k \in 0..n}

Nums(seq) == [i \in 1..Len(seq) |-> JNum(seq[i])]

Strs(seq) == [i \in 1..Len(seq) |-> JStr(seq[i])]

Timestamps == {"2026-01-01T00:00:00.000Z", "2026-01-01T00:00:01.000Z"}

DefaultTaste ==
  [typography |-> [roles |-> << [role |-> "h1", size |-> 20],
                               [role |-> "body", size |-> 16] >>],
   spacing |-> [values |-> <<4, 8>>],
   color |-> [tokens |-> <<"primary">>,
              contrast |-> << [pair |-> "text/background", ratio |-> 7] >>],
   density |-> [interactions_per_view |-> 2],
   consistency |-> [radius |-> Nums(<<4>>),
                    elevation |-> Nums(<<1>>),
                    motion |-> Strs(<<"ease">>)],
   patterns |-> [usage |-> << [pattern |-> "modal", intent |-> "confirm"] >>]]

DefaultManifest ==
  [contract |-> [id |-> "renderer-contract@1"],
   renderer |-> [name |-> "web-renderer", version |-> "1.0.0", target |-> "web",
                 declares_contract |-> "renderer-contract@1"],
   outputs |-> [token_usage |-> [undeclared |-> <<>>],
                constitution |-> [violations |-> <<>>],
                determinism |-> [deterministic |-> TRUE, markers |-> <<>>]],
   taste |-> DefaultTaste]

DefaultConstitution ==
  [typography |-> [max_font_sizes |-> 2,
                   roles |-> << [name |-> "h1", min |-> 16, max |-> 20],
                                [name |-> "h2", min |-> 12, max |-> 16],
                                [name |-> "body", min |-> 12, max |-> 20] >>,
                   hierarchy |-> <<"h1", "h2", "body">>],
   spacing |-> [allowed_values |-> <<4, 8, 16>>, max_variance |-> 4],
   color |-> [allowed_tokens |-> <<"primary", "secondary">>, contrast_floor |-> 5],
   density |-> [max_interactions_per_view |-> 3],
   consistency |-> [radius |-> [allowed_values |-> Nums(<<4, 8, 16>>),
                                max_variance |-> JNum(4)],
                    elevation |-> [allowed_values |-> Nums(<<1, 3>>),
                                   max_variance |-> JNum(1)],
                    motion |-> [allowed_values |-> Strs(<<"ease", "linear">>),
                                max_variance |-> JNum(0)]],
   patterns |-> [type |-> "object",
                 allowed |-> <<"modal", "drawer">>,
                 intents |-> [type |-> "object",
                              entries |-> [p \in {"modal"} |-> <<"confirm", "alert">>]]]]

DefaultIntent ==
  [density |-> [type |-> "object", max_interactions_per_view |-> JNum(2)],
   allowed_patterns |-> Undefined]

metaOf(id) ==
  [id |-> id,
   description |-> "about " \o id,
   clause |-> "clause of " \o id,
   intent_reference |-> "intent of " \o id,
   remediation |-> "fix " \o id]

DefaultRuleset ==
  [version |-> "1.0.0",
   rules |-> [i \in 1..Len(TASTE_RULE_IDS) |-> metaOf(TASTE_RULE_IDS[i])]]

DefaultRegistry ==
  [registry_version |-> "1",
   renderers |-> << [name |-> "web-renderer", version |-> "1.0.0",
                     target |-> "web", contract_id |-> "renderer-contract@1"] >>]

DefaultOptions == [failFast |-> Undefined, verbose |-> Undefined]

Missing == [type |-> "missing"]

File(json) == [type |-> "file", json |-> json]

\* A JSON document with the errors its schema reports for it.
Raw(schemaErrors, content) == [schemaErrors |-> schemaErrors, content |-> content]

DefaultFiles ==
  [manifest |-> File(Raw(<<>>, DefaultManifest)),
   constitution |-> File(DefaultConstitution),
   intent |-> File(DefaultIntent),
   ruleset |-> File(DefaultRuleset),
   registry |-> File(Raw(<<>>, DefaultRegistry)),
   contractSchema |-> File("renderer-contract.schema.json"),
   registrySchema |-> File("renderer-registry.schema.json")]

\* ---- taste: every rule passing or failing, whatever the others do ----
CoarseRoles ==
  { DefaultTaste.typography.roles,
    << [role |-> "h1", size |-> 20], [role |-> "h2", size |-> 16],
       [role |-> "body", size |-> 12] >>,
    << [role |-> "h1", size |-> 12], [role |-> "body", size |-> 16] >> }

CoarseSpacing == { <<4, 8>>, <<5>>, <<4, 16>> }

CoarseTokens == { <<"primary">>, <<"neon">> }

CoarseContrast ==
  { << [pair |-> "text/background", ratio |-> 7] >>,
    << [pair |-> "text/background", ratio |-> 3] >> }

CoarseIntents ==
  { DefaultIntent, [DefaultIntent EXCEPT !.density = Undefined] }

CoarseConsistency ==
  { DefaultTaste.consistency,
    [DefaultTaste.consistency EXCEPT !.radius = Nums(<<2>>)],
    [DefaultTaste.consistency EXCEPT !.radius = Nums(<<4, 16>>)] }

CoarseUsage ==
  { << [pattern |-> "modal", intent |-> "confirm"] >>,
    << [pattern |-> "toast", intent |-> "confirm"] >> }

BoolOptions ==
  {DefaultOptions}
  \cup {[failFast |-> JBool(f), verbose |-> JBool(v)] : f, v \in BOOLEAN}

FewOptions ==
  {DefaultOptions, [failFast |-> JBool(FALSE), verbose |-> JBool(TRUE)]}

TasteEnv(options, manifest, constitution, intent, ruleset) ==
  [command |-> "taste",
   options |-> options,
   files |-> [DefaultFiles EXCEPT !.manifest = File(Raw(<<>>, manifest)),
                                  !.constitution = File(constitution),
                                  !.intent = File(intent),
                                  !.ruleset = File(ruleset)]]

CoarseTasteEnvs ==
  { TasteEnv(o,
             [DefaultManifest EXCEPT !.taste =
                [typography |-> [roles |-> r],
                 spacing |-> [values |-> s],
                 color |-> [tokens |-> t, contrast |-> c],
                 density |-> DefaultTaste.density,
                 consistency |-> k,
                 patterns |-> [usage |-> u]]],
             DefaultConstitution, i, DefaultRuleset) :
      o \in BoolOptions, r \in CoarseRoles, s \in CoarseSpacing,
      t \in CoarseTokens, c \in CoarseContrast, i \in CoarseIntents,
      k \in CoarseConsistency, u \in CoarseUsage }

\* ---- taste: one rule family in detail, the rest as in the defaults ----
DeclaredEntries ==
  { [role |-> "h1", size |-> 12], [role |-> "h1", size |-> 16],
    [role |-> "h1", size |-> 20], [role |-> "h2", size |-> 16],
    [role |-> "h2", size |-> 20], [role |-> "body", size |-> 16],
    [role |-> "body", size |-> 20], [role |-> "caption", size |-> 16] }

Hierarchies == { <<"h1", "h2", "body">>, <<"h1", "body">>, <<"h1">> }

TypographyEnvs ==
  { TasteEnv(o,
             [DefaultManifest EXCEPT !.taste.typography.roles = r],
             [DefaultConstitution EXCEPT !.typography.hierarchy = h],
             DefaultIntent, DefaultRuleset) :
      o \in FewOptions, r \in SeqsUpTo(DeclaredEntries, MaxRoles), h \in Hierarchies }

SpacingEnvs ==
  { TasteEnv(o,
             [DefaultManifest EXCEPT !.taste.spacing.values = s],
             [DefaultConstitution EXCEPT !.spacing.max_variance = v],
             DefaultIntent, DefaultRuleset) :
      o \in FewOptions,
      s \in { <<>>, <<4>>, <<4, 8>>, <<4, 16>>, <<5>>, <<16, 5>> },
      v \in {4, 12} }

ColorEnvs ==
  { TasteEnv(o,
             [DefaultManifest EXCEPT !.taste.color =
                [tokens |-> t, contrast |-> c]],
             DefaultConstitution, DefaultIntent, DefaultRuleset) :
      o \in FewOptions,
      t \in { <<>>, <<"primary">>, <<"neon">>, <<"primary", "neon", "lime">> },
      c \in { <<>>,
              << [pair |-> "text/background", ratio |-> 5] >>,
              << [pair |-> "text/background", ratio |-> 7],
                 [pair |-> "link/background", ratio |-> 4],
                 [pair |-> "muted/background", ratio |-> 3] >> } }

IntentDensities ==
  { Undefined, Null,
    [type |-> "object", max_interactions_per_view |-> Undefined],
    [type |-> "object", max_interactions_per_view |-> Null],
    [type |-> "object", max_interactions_per_view |-> JNum(1)],
    [type |-> "object", max_interactions_per_view |-> JNum(2)] }

DensityEnvs ==
  { TasteEnv(o,
             [DefaultManifest EXCEPT !.taste.density.interactions_per_view = n],
             [DefaultConstitution EXCEPT !.density.max_interactions_per_view = m],
             [DefaultIntent EXCEPT !.density = d],
             DefaultRuleset) :
      o \in FewOptions, n \in {1, 2, 3}, m \in {1, 3}, d \in IntentDensities }

ConsistencyEnvs ==
  { TasteEnv(o,
             [DefaultManifest EXCEPT !.taste.consistency =
                [radius |-> Nums(r), elevation |-> Nums(e), motion |-> Strs(m)]],
             [DefaultConstitution EXCEPT
                !.consistency.radius.max_variance = rv,
                !.consistency.motion.max_variance = mv],
             DefaultIntent, DefaultRuleset) :
      o \in FewOptions,
      r \in { <<>>, <<4>>, <<8, 4>>, <<4, 16>>, <<2>> },
      e \in { <<>>, <<1>>, <<1, 3>> },
      m \in { <<"ease">>, <<"ease", "linear">>, <<"bounce">> },
      rv \in { Undefined, JNum(4) },
      mv \in { Undefined, JNum(0), JNum(1) } }

UsageEntries ==
  { [pattern |-> "modal", intent |-> "confirm"],
    [pattern |-> "modal", intent |-> "alert"],
    [pattern |-> "drawer", intent |-> "alert"],
    [pattern |-> "toast", intent |-> "confirm"] }

PatternPolicies ==
  { Undefined,
    [type |-> "object", allowed |-> <<"modal", "drawer">>, intents |-> Undefined],
    DefaultConstitution.patterns }

IntentOverrides ==
  { Undefined,
    [type |-> "object", entries |-> [p \in {"modal"} |-> <<"confirm">>]],
    [type |-> "object", entries |-> [p \in {"modal"} |-> <<>>]],
    [type |-> "object", entries |-> [p \in {"drawer"} |-> <<"alert">>]] }

PatternEnvs ==
  { TasteEnv(o,
             [DefaultManifest EXCEPT !.taste.patterns.usage = u],
             [DefaultConstitution EXCEPT !.patterns = p],
             [DefaultIntent EXCEPT !.allowed_patterns = a],
             DefaultRuleset) :
      o \in FewOptions, u \in SeqsUpTo(UsageEntries, MaxUsage),
      p \in PatternPolicies, a \in IntentOverrides }

Rulesets ==
  { DefaultRuleset,
    [version |-> "0.9.0", rules |-> SubSeq(DefaultRuleset.rules, 2, 6)],
    [version |-> "0.0.1", rules |-> <<>>] }

RulesetEnvs ==
  { TasteEnv(o,
             [DefaultManifest EXCEPT !.taste.typography.roles = r],
             DefaultConstitution, i, rs) :
      o \in FewOptions, r \in CoarseRoles, i \in CoarseIntents, rs \in Rulesets }

\* ---- renderer-validate ----
RendererEnv(manifestRaw, registryRaw) ==
  [command |-> "renderer-validate",
   options |-> DefaultOptions,
   files |-> [DefaultFiles EXCEPT !.manifest = File(manifestRaw),
                                  !.registry = File(registryRaw)]]

\* Entries that differ from the default manifest's renderer in one field.
RegistryEntries ==
  { [name |-> "web-renderer", version |-> "1.0.0", target |-> "web",
     contract_id |-> "renderer-contract@1"],
    [name |-> "web-renderer", version |-> "1.0.0", target |-> "web",
     contract_id |-> "renderer-contract@0"],
    [name |-> "web-renderer", version |-> "1.0.0", target |-> "ios",
     contract_id |-> "renderer-contract@1"],
    [name |-> "web-renderer", version |-> "2.0.0", target |-> "web",
     contract_id |-> "renderer-contract@1"],
    [name |-> "pdf-renderer", version |-> "1.0.0", target |-> "web",
     contract_id |-> "renderer-contract@1"] }

ValidRendererEnvs ==
  { RendererEnv(
      Raw(<<>>, [DefaultManifest EXCEPT
                   !.renderer.declares_contract = dc,
                   !.outputs = [token_usage |-> [undeclared |-> ut],
                                constitution |-> [violations |-> cv],
                                determinism |-> [deterministic |-> df,
                                                 markers |-> dm]]]),
      Raw(<<>>, [DefaultRegistry EXCEPT !.renderers = rr])) :
      dc \in {"renderer-contract@1", "renderer-contract@0"},
      ut \in { <<>>, <<"color.brand.500", "space.7">> },
      cv \in { <<>>, <<"spacing.scale">> },
      df \in BOOLEAN,
      dm \in { <<>>, <<"Date.now", "Math.random">> },
      rr \in SeqsUpTo(RegistryEntries, MaxRegistry) }

SchemaErrorLists ==
  { << [instancePath |-> <<>>, keyword |-> "required", additionalProperty |-> "",
        message |-> "must have required property 'renderer'"] >>,
    << [instancePath |-> <<>>, keyword |-> "additionalProperties",
        additionalProperty |-> "extra",
        message |-> "must NOT have additional properties"],
       [instancePath |-> <<"renderer", "version">>, keyword |-> "type",
        additionalProperty |-> "", message |-> "must be string"] >>,
    << [instancePath |-> <<"outputs", "determinism">>,
        keyword |-> "additionalProperties", additionalProperty |-> "seed",
        message |-> "must NOT have additional properties"] >>,
    << [instancePath |-> <<"renderers", "0">>, keyword |-> "custom",
        additionalProperty |-> "", message |-> ""] >> }

\* A schema-invalid document: what it holds beyond its errors is not read.
InvalidRendererEnvs ==
  { RendererEnv(Raw(me, DefaultManifest), Raw(re, DefaultRegistry)) :
      me, re \in SchemaErrorLists \cup {<<>>} }

\* ---- files that are not there ----
TasteFiles == <<"manifest", "constitution", "intent", "ruleset">>

RendererFiles == <<"manifest", "registry", "contractSchema", "registrySchema">>

Without(files, gone) ==
  [f \in DOMAIN files |-> IF f \in gone THEN Missing ELSE files[f]]

MissingFileEnvs ==
  { [command |-> "taste", options |-> DefaultOptions,
     files |-> Without(DefaultFiles, gone)] : gone \in SUBSET Range(TasteFiles) }
  \cup
  { [command |-> "renderer-validate", options |-> DefaultOptions,
     files |-> Without(DefaultFiles, gone)] : gone \in SUBSET Range(RendererFiles) }

Environments ==
  CoarseTasteEnvs \cup TypographyEnvs \cup SpacingEnvs \cup ColorEnvs
  \cup DensityEnvs \cup ConsistencyEnvs \cup PatternEnvs \cup RulesetEnvs
  \cup ValidRendererEnvs \cup InvalidRendererEnvs \cup MissingFileEnvs

(***************************************************************************)
(* The commands.  One run of a command is one process: it locates its      *)
(* files, reads them, evaluates, writes the report and sets the exit code. *)
(***************************************************************************)
VARIABLES
  command,     \* the command of this run: "taste" or "renderer-validate"
  options,     \* its options (failFast, verbose)
  files,       \* the documents and schemas on disk
  pc,          \* where the run is
  loaded,      \* the documents read so far: <<>> or <<the documents>>
  report,      \* the evaluator's report: <<>> or <<the report>>
  reportFile,  \* the report on disk: <<>> or <<the report>>
  thrown,      \* the error the run ended with, "" when none
  console,     \* the lines printed, each <<stream, text>>
  exitCode     \* process.exitCode

vars == <<command, options, files, pc, loaded, report, reportFile, thrown,
          console, exitCode>>

Init ==
  /\ \E env \in Environments :
       /\ command = env.command
       /\ options = env.options
       /\ files = env.files
  /\ pc = "start"
  /\ loaded = <<>>
  /\ report = <<>>
  /\ reportFile = <<>>
  /\ thrown = ""
  /\ console = <<>>
  /\ exitCode = 0

fileExists(name) == files[name].type = "file"

readJsonFile(name) == files[name].json

\* The fileExists checks without the last one.
firstMissing_lastUnchecked(names) ==
  LET gone == {i \in 1..(Len(names) - 1) : ~fileExists(names[i])}
  IN IF gone = {} THEN "" ELSE names[Min(gone)]

\* The first of `names` that is not on disk, "" when all are.
firstMissing(names) ==
  LET gone == {i \in 1..Len(names) : ~fileExists(names[i])}
  IN IF gone = {} THEN "" ELSE names[Min(gone)]

tasteNotFound(name) ==
  IF name = "manifest" THEN "Renderer manifest not found at renderers/manifest.json."
  ELSE IF name = "constitution"
  THEN "Visual constitution not found at config/visual-constitution.json."
  ELSE IF name = "intent" THEN "Design intent not found at config/design-intent.json."
  ELSE "Taste ruleset not found at rules/taste/ruleset.json."

rendererNotFound(name) ==
  IF name = "manifest"
  THEN "Renderer manifest not found at renderers/manifest.json. Provide --manifest <path>."
  ELSE IF name = "registry"
  THEN "Renderer registry not found at config/renderer-registry.json. Provide --registry <path>."
  ELSE IF name = "contractSchema"
  THEN "Renderer contract schema missing at contracts/renderer-contract.schema.json."
  ELSE "Renderer registry schema missing at contracts/renderer-registry.schema.json."

\* ---- runTaste ----
\* The four fileExists checks, each throwing when its file is not there.
RunTasteLocate ==
  /\ pc = "start"
  /\ command = "taste"
  /\ LET gone == firstMissing(TasteFiles)
     IN IF gone # ""
        THEN /\ thrown' = tasteNotFound(gone)
             /\ pc' = "thrown"
        ELSE /\ pc' = "located"
             /\ UNCHANGED thrown
  /\ UNCHANGED <<command, options, files, loaded, report, reportFile, console,
                 exitCode>>

\* The three readJsonFile calls.
RunTasteRead ==
  /\ pc = "located"
  /\ command = "taste"
  /\ loaded' = << [manifest |-> readJsonFile("manifest").content,
                   constitution |-> readJsonFile("constitution"),
                   intent |-> readJsonFile("intent")] >>
  /\ pc' = "loaded"
  /\ UNCHANGED <<command, options, files, report, reportFile, thrown, console,
                 exitCode>>

\* await evaluateTaste(manifest, constitution, intent, {rulesetPath, ...})
RunTasteEvaluate ==
  /\ pc = "loaded"
  /\ command = "taste"
  /\ \E now \in Timestamps :
       report' = << evaluateTaste(loaded[1].manifest, loaded[1].constitution,
                                  loaded[1].intent,
                                  [failFast |-> JBool(OrDefault(options.failFast, TRUE)),
                                   verbose |-> JBool(OrDefault(options.verbose, FALSE))],
                                  readJsonFile("ruleset"), now) >>
  /\ pc' = "evaluated"
  /\ UNCHANGED <<command, options, files, loaded, reportFile, thrown, console,
                 exitCode>>

\* await writeJsonFile(reportPath, report)
RunTasteWrite ==
  /\ pc = "evaluated"
  /\ command = "taste"
  /\ reportFile' = report
  /\ pc' = "written"
  /\ UNCHANGED <<command, options, files, loaded, report, thrown, console, exitCode>>

\* runTaste's last lines without the assignment to process.exitCode.
RunTasteExit_neverFails ==
  /\ pc = "written"
  /\ command = "taste"
  /\ IF report[1].status = "failed"
     THEN LET first == report[1].errors[1]
          IN console' = console
                  \o << <<"stderr", "Taste validation failed (" \o first.id \o "): "
                                    \o first.message \o " | clause=" \o first.clause
                                    \o " intent=" \o first.intent_reference>>,
                        <<"stderr", "See validation/taste-report.json">> >>
     ELSE console' = console
               \o << <<"stdout", "Taste validation passed. Report written to validation/taste-report.json">> >>
  /\ pc' = "done"
  /\ UNCHANGED <<command, options, files, loaded, report, reportFile, thrown,
                 exitCode>>

\* The lines after the write: the summary of the first error and exit code 1
\* on a failed report, the success line otherwise.
RunTasteExit ==
  /\ pc = "written"
  /\ command = "taste"
  /\ IF report[1].status = "failed"
     THEN LET first == report[1].errors[1]
          IN /\ console' = console
                  \o << <<"stderr", "Taste validation failed (" \o first.id \o "): "
                                    \o first.message \o " | clause=" \o first.clause
                                    \o " intent=" \o first.intent_reference>>,
                        <<"stderr", "See validation/taste-report.json">> >>
             /\ exitCode' = 1
     ELSE /\ console' = console
               \o << <<"stdout", "Taste validation passed. Report written to validation/taste-report.json">> >>
          /\ UNCHANGED exitCode
  /\ pc' = "done"
  /\ UNCHANGED <<command, options, files, loaded, report, reportFile, thrown>>

\* ---- runRendererValidate ----
RunRendererValidateLocate ==
  /\ pc = "start"
  /\ command = "renderer-validate"
  /\ LET gone == firstMissing(RendererFiles)
     IN IF gone # ""
        THEN /\ thrown' = rendererNotFound(gone)
             /\ pc' = "thrown"
        ELSE /\ pc' = "located"
             /\ UNCHANGED thrown
  /\ UNCHANGED <<command, options, files, loaded, report, reportFile, console,
                 exitCode>>

RunRendererValidateRead ==
  /\ pc = "located"
  /\ command = "renderer-validate"
  /\ loaded' = << [manifestRaw |-> readJsonFile("manifest"),
                   registryRaw |-> readJsonFile("registry")] >>
  /\ pc' = "loaded"
  /\ UNCHANGED <<command, options, files, report, reportFile, thrown, console,
                 exitCode>>

RunRendererValidateEvaluate ==
  /\ pc = "loaded"
  /\ command = "renderer-validate"
  /\ \E now \in Timestamps :
       report' = << buildRendererValidationReport(loaded[1].manifestRaw,
                                                  loaded[1].registryRaw, now) >>
  /\ pc' = "evaluated"
  /\ UNCHANGED <<command, options, files, loaded, reportFile, thrown, console,
                 exitCode>>

RunRendererValidateWrite ==
  /\ pc = "evaluated"
  /\ command = "renderer-validate"
  /\ reportFile' = report
  /\ pc' = "written"
  /\ UNCHANGED <<command, options, files, loaded, report, thrown, console, exitCode>>

RunRendererValidateExit ==
  /\ pc = "written"
  /\ command = "renderer-validate"
  /\ IF report[1].status = "failed"
     THEN /\ console' = console
               \o << <<"stderr", "Renderer validation failed. See validation/renderer-report.json">> >>
          /\ exitCode' = 1
     ELSE /\ console' = console
               \o << <<"stdout", "Renderer validation passed. Report written to validation/renderer-report.json">> >>
          /\ UNCHANGED exitCode
  /\ pc' = "done"
  /\ UNCHANGED <<command, options, files, loaded, report, reportFile, thrown>>

\* The command is run again on the same files (CI runs it on every build):
\* a new process, with the report of the last run still on disk.
RunAgain ==
  /\ pc \in {"done", "thrown"}
  /\ pc' = "start"
  /\ loaded' = <<>>
  /\ report' = <<>>
  /\ thrown' = ""
  /\ console' = <<>>
  /\ exitCode' = 0
  /\ UNCHANGED <<command, options, files, reportFile>>

Next ==
  \/ RunTasteLocate
  \/ RunTasteRead
  \/ RunTasteEvaluate
  \/ RunTasteWrite
  \/ RunTasteExit
  \/ RunRendererValidateLocate
  \/ RunRendererValidateRead
  \/ RunRendererValidateEvaluate
  \/ RunRendererValidateWrite
  \/ RunRendererValidateExit
  \/ RunAgain

Spec == Init /\ [][Next]_vars

(***************************************************************************)
(* Properties.                                                             *)
(***************************************************************************)
TasteReported == command = "taste" /\ report # <<>>

RendererReported == command = "renderer-validate" /\ report # <<>>

\* The options evaluateTaste works with.
EffectiveFailFast == options.failFast # JBool(FALSE)

EffectiveVerbose == options.verbose = JBool(TRUE)

RuleIds(rules) == [i \in 1..Len(rules) |-> rules[i].id]

\* The entries of `rules` that did not pass, front to back.
RECURSIVE FailingSubsequence(_)
FailingSubsequence(rules) ==
  IF Len(rules) = 0 THEN <<>>
  ELSE IF Head(rules).passed
       THEN FailingSubsequence(Tail(rules))
       ELSE <<Head(rules)>> \o FailingSubsequence(Tail(rules))

\* C1: in every report of either evaluator, on every return path, errors is
\* exactly the subsequence of rules whose passed flag is false, in the order
\* of rules.
C1_ErrorsAreTheFailingRules ==
  report # <<>> => report[1].errors = FailingSubsequence(report[1].rules)

\* A fail-fast early return of evaluateTaste after at least one passing rule.
C1_Witness ==
  /\ TasteReported
  /\ Len(report[1].rules) \in 2..9
  /\ report[1].rules[1].passed
  /\ Len(report[1].errors) = 1

\* C2: in every report of either evaluator, status is "passed" if and only
\* if errors is empty; a report whose status is "failed" has an error.
C2_PassedIffNoErrors ==
  report # <<>> =>
    /\ report[1].status \in {"passed", "failed"}
    /\ report[1].status = "passed" <=> Len(report[1].errors) = 0
    /\ report[1].status = "failed" => \E i \in 1..Len(report[1].rules) :
                                         ~report[1].rules[i].passed

\* The early return of the first block of evaluateTaste.
C2_Witness ==
  /\ TasteReported
  /\ Len(report[1].rules) = 1
  /\ report[1].status = "failed"
  /\ Len(report[1].errors) = 1

\* C3: if the manifest or the registry (or both) is schema-invalid, the
\* report holds exactly the two schema rules, manifest then registry, each
\* with the verdict of its own document, its status is "failed" and its
\* renderer is unknown/unknown/unknown; no semantic rule is evaluated.
C3_SchemaInvalidReport ==
  (RendererReported
   /\ (files.manifest.json.schemaErrors # <<>>
       \/ files.registry.json.schemaErrors # <<>>)) =>
    /\ RuleIds(report[1].rules)
         = <<"renderer-manifest.schema", "renderer-registry.schema">>
    /\ report[1].rules[1].passed = (files.manifest.json.schemaErrors = <<>>)
    /\ report[1].rules[2].passed = (files.registry.json.schemaErrors = <<>>)
    /\ report[1].status = "failed"
    /\ report[1].renderer
         = [name |-> "unknown", version |-> "unknown", target |-> "unknown"]

\* Only the registry is schema-invalid.
C3_Witness ==
  /\ RendererReported
  /\ files.manifest.json.schemaErrors = <<>>
  /\ files.registry.json.schemaErrors # <<>>

\* C4: with failFast true and verbose false, evaluateTaste stops at the
\* first failing rule among those before patterns.intent.rule: the rules
\* list is a prefix of the fixed order, nothing before its last entry
\* failed, a list cut short ends with a failing rule, and when
\* typography.max-sizes.rule fails the list has length 1.
C4_FailFastStopsAtFirstFailure ==
  (TasteReported /\ EffectiveFailFast /\ ~EffectiveVerbose) =>
    LET rules == report[1].rules
        n == Len(rules)
        roles == loaded[1].manifest.taste.typography.roles
        sizes == {roles[i].size : i \in 1..Len(roles)}
    IN /\ n \in 1..Len(TASTE_RULE_IDS)
       /\ RuleIds(rules) = SubSeq(TASTE_RULE_IDS, 1, n)
       /\ \A i \in 1..(n - 1) : rules[i].passed
       /\ n < Len(TASTE_RULE_IDS) => ~rules[n].passed
       /\ Cardinality(sizes) > loaded[1].constitution.typography.max_font_sizes
            => n = 1

\* Under the default options typography.max-sizes.rule fails and is the
\* only rule of the report.
C4_Witness ==
  /\ TasteReported
  /\ options = DefaultOptions
  /\ Len(report[1].rules) = 1
  /\ ~report[1].rules[1].passed
  /\ report[1].rules[1].id = "typography.max-sizes.rule"

\* C5: with verbose true (whatever failFast is) or failFast false, the rules
\* list holds each of the ten rule ids once, in the fixed order, however
\* many fail, and errors holds every failing one.
C5_VerboseNeverTruncates ==
  (TasteReported /\ (EffectiveVerbose \/ ~EffectiveFailFast)) =>
    /\ RuleIds(report[1].rules) = TASTE_RULE_IDS
    /\ \A i \in 1..Len(report[1].rules) :
         ~report[1].rules[i].passed =>
           \E j \in 1..Len(report[1].errors) :
             report[1].errors[j] = report[1].rules[i]

\* verbose and failFast both true, and several rules fail.
C5_Witness ==
  /\ TasteReported
  /\ options = [failFast |-> JBool(TRUE), verbose |-> JBool(TRUE)]
  /\ Len(report[1].errors) >= 3
  /\ ~report[1].rules[1].passed

\* C6: both evaluators are deterministic in their documents: a run on the
\* same files and options as the run before it yields the same rules (ids,
\* passed flags, messages, counterexamples, metadata), the same errors and
\* the same status as the report that run left on disk; only generated_at
\* may differ.
C6_SameDocumentsSameReport ==
  (report # <<>> /\ reportFile # <<>>) =>
    /\ report[1].rules = reportFile[1].rules
    /\ report[1].errors = reportFile[1].errors
    /\ report[1].status = reportFile[1].status
    /\ report[1].renderer = reportFile[1].renderer

\* A second run has evaluated, at another time than the first, a report
\* with errors.
C6_Witness ==
  /\ pc = "evaluated"
  /\ reportFile # <<>>
  /\ report[1].generated_at # reportFile[1].generated_at
  /\ Len(report[1].errors) > 0

\* The rule of a report with the given id: <<>> when the report has none.
RuleWithId(id) == SelectSeq(report[1].rules, LAMBDA rule : rule.id = id)

BothSchemaValid ==
  /\ files.manifest.json.schemaErrors = <<>>
  /\ files.registry.json.schemaErrors = <<>>

\* C7: for a schema-valid manifest and registry, deterministic-output.rule
\* passes if and only if outputs.determinism.deterministic is true and
\* outputs.determinism.markers is empty.
C7_DeterministicOutputRule ==
  (RendererReported /\ BothSchemaValid) =>
    LET determinism == files.manifest.json.content.outputs.determinism
        rule == RuleWithId("deterministic-output.rule")
    IN /\ Len(rule) = 1
       /\ rule[1].passed <=> (determinism.deterministic /\ determinism.markers = <<>>)

\* deterministic is true and markers are present: the rule fails.
C7_Witness ==
  /\ RendererReported
  /\ BothSchemaValid
  /\ files.manifest.json.content.outputs.determinism.deterministic
  /\ files.manifest.json.content.outputs.determinism.markers # <<>>
  /\ ~RuleWithId("deterministic-output.rule")[1].passed

\* The registry entries of the manifest's (name, version, target).
MatchingEntries ==
  LET m == files.manifest.json.content
      entries == files.registry.json.content.renderers
  IN SelectSeq(entries, LAMBDA e : /\ e.name = m.renderer.name
                                   /\ e.version = m.renderer.version
                                   /\ e.target = m.renderer.target)

\* The hard failures of the renderer contract.
SomeHardFailure ==
  LET m == files.manifest.json.content
  IN \/ m.renderer.declares_contract # m.contract.id
     \/ MatchingEntries = <<>>
     \/ (MatchingEntries # <<>> /\ MatchingEntries[1].contract_id # m.contract.id)
     \/ m.outputs.token_usage.undeclared # <<>>
     \/ m.outputs.constitution.violations # <<>>
     \/ ~m.outputs.determinism.deterministic
     \/ m.outputs.determinism.markers # <<>>

\* C8: with both documents schema-valid, the status is "failed" if the
\* declared contract differs from contract.id, no registry entry matches
\* (name, version, target), the matched entry's contract_id differs from
\* contract.id, undeclared tokens or constitution violations are listed,
\* deterministic is false or markers is non-empty; it is "passed" if none
\* of these holds.
C8_StatusOfValidDocuments ==
  (RendererReported /\ BothSchemaValid) =>
    report[1].status = IF SomeHardFailure THEN "failed" ELSE "passed"

\* An unregistered renderer whose manifest is otherwise valid is rejected.
C8_Witness ==
  /\ RendererReported
  /\ BothSchemaValid
  /\ MatchingEntries = <<>>
  /\ files.registry.json.content.renderers # <<>>
  /\ LET m == files.manifest.json.content
     IN /\ m.renderer.declares_contract = m.contract.id
        /\ m.outputs.token_usage.undeclared = <<>>
        /\ m.outputs.constitution.violations = <<>>
        /\ m.outputs.determinism.deterministic
        /\ m.outputs.determinism.markers = <<>>
  /\ report[1].status = "failed"

\* C9: whenever typography.hierarchy.rule passes, no declared role is
\* smaller than a declared role that comes later in the constitution's
\* hierarchy, undeclared roles being skipped; and with hierarchy [h1, body],
\* h1 = 16 and body = 20 the rule fails naming h1 (16) and body (20).
C9_HierarchyOrderOfDeclaredRoles ==
  (TasteReported /\ Len(report[1].rules) >= 2) =>
    LET rule == report[1].rules[2]
        declared == loaded[1].manifest.taste.typography.roles
        hierarchy == loaded[1].constitution.typography.hierarchy
    IN /\ rule.id = "typography.hierarchy.rule"
       /\ rule.passed =>
            \A i, j \in 1..Len(hierarchy) :
              (/\ i < j
               /\ sizeByRole(declared, hierarchy[i]).type = "number"
               /\ sizeByRole(declared, hierarchy[j]).type = "number")
              => sizeByRole(declared, hierarchy[i]).num
                   >= sizeByRole(declared, hierarchy[j]).num
       /\ (/\ hierarchy = <<"h1", "body">>
           /\ declared = << [role |-> "h1", size |-> 16],
                            [role |-> "body", size |-> 20] >>)
          => /\ ~rule.passed
             /\ rule.counterexample
                  = JStr("h1 (16) should not be smaller than body (20).")

\* The missing declarations of a density limit.
IntentHasNoLimit ==
  LET density == files.intent.json.density
  IN \/ density.type \in {"undefined", "null"}
     \/ density.max_interactions_per_view.type \in {"undefined", "null"}

\* C10: whenever density.limit.rule is evaluated: if the intent declares no
\* density limit (density or max_interactions_per_view absent or null) the
\* rule fails with the message "Design intent missing density limit."
\* whatever interactions_per_view is; otherwise it passes if and only if
\* interactions_per_view is at most the intent's limit.
C10_DensityLimitRule ==
  (TasteReported /\ Len(report[1].rules) >= 7) =>
    LET rule == report[1].rules[7]
        actual == files.manifest.json.content.taste.density.interactions_per_view
    IN /\ rule.id = "density.limit.rule"
       /\ IF IntentHasNoLimit
          THEN /\ ~rule.passed
               /\ rule.message = "Design intent missing density limit."
          ELSE rule.passed <=>
                 actual <= files.intent.json.density.max_interactions_per_view.num

\* No limit is declared, the manifest declares one interaction per view,
\* and the rule has failed.
C10_Witness ==
  /\ TasteReported
  /\ Len(report[1].rules) >= 7
  /\ IntentHasNoLimit
  /\ files.manifest.json.content.taste.density.interactions_per_view = 1
  /\ ~report[1].rules[7].passed

\* The report holds the results of all ten taste rules.
HasAllTasteRules == TasteReported /\ Len(report[1].rules) = Len(TASTE_RULE_IDS)

\* The override list of the intent document for a pattern: <<>> when there
\* is none, <<list>> when there is one.
OverrideFor(pattern) ==
  LET overrides == loaded[1].intent.allowed_patterns
  IN IF overrides.type \in {"undefined", "null"} THEN <<>>
     ELSE IF pattern \in DOMAIN overrides.entries
          THEN <<overrides.entries[pattern]>>
          ELSE <<>>

\* The per-pattern list of the constitution, in the same form.
ConstitutionListFor(pattern) ==
  LET policy == loaded[1].constitution.patterns
  IN IF policy.type \in {"undefined", "null"} THEN <<>>
     ELSE IF policy.intents.type \in {"undefined", "null"} THEN <<>>
     ELSE IF pattern \in DOMAIN policy.intents.entries
          THEN <<policy.intents.entries[pattern]>>
          ELSE <<>>

\* Override when present (even if empty), else the constitution's list,
\* else empty.
PermittedIntents(pattern) ==
  IF OverrideFor(pattern) # <<>> THEN Range(OverrideFor(pattern)[1])
  ELSE IF ConstitutionListFor(pattern) # <<>>
       THEN Range(ConstitutionListFor(pattern)[1])
       ELSE {}

\* Every declared usage names a pattern of the constitution's allowed set.
UsagePatternsAllowed ==
  LET policy == loaded[1].constitution.patterns
      usage == loaded[1].manifest.taste.patterns.usage
  IN /\ policy.type = "object"
     /\ \A i \in 1..Len(usage) : usage[i].pattern \in Range(policy.allowed)

\* C11: in patterns.intent.rule the permitted intents of a pattern are the
\* intent document's override list for it when one is present (even an
\* empty one), else the constitution's per-pattern list, else none; the
\* override replaces the constitution's list and is never unioned with it:
\* with override modal -> [confirm], constitution modal -> [confirm, alert]
\* and a declared usage (modal, alert) the rule fails.
C11_OverrideReplacesConstitutionList ==
  (HasAllTasteRules /\ UsagePatternsAllowed) =>
    LET rule == report[1].rules[10]
        usage == loaded[1].manifest.taste.patterns.usage
    IN /\ rule.id = "patterns.intent.rule"
       /\ rule.passed <=>
            \A i \in 1..Len(usage) :
              usage[i].intent \in PermittedIntents(usage[i].pattern)
       /\ (/\ OverrideFor("modal") = << <<"confirm">> >>
           /\ ConstitutionListFor("modal") = << <<"confirm", "alert">> >>
           /\ \E i \in 1..Len(usage) :
                usage[i] = [pattern |-> "modal", intent |-> "alert"])
          => ~rule.passed

\* The example of the claim: the override narrows modal to confirm, the
\* constitution would allow alert, and the usage (modal, alert) has failed.
C11_Witness ==
  /\ HasAllTasteRules
  /\ UsagePatternsAllowed
  /\ OverrideFor("modal") = << <<"confirm">> >>
  /\ ConstitutionListFor("modal") = << <<"confirm", "alert">> >>
  /\ loaded[1].manifest.taste.patterns.usage
       = << [pattern |-> "modal", intent |-> "alert"] >>
  /\ ~report[1].rules[10].passed

\* The metadata fields of a rule result or of a catalog entry.
MetadataOf(r) ==
  [description |-> r.description,
   clause |-> r.clause,
   intent_reference |-> r.intent_reference,
   remediation |-> r.remediation]

PlaceholderMetadata ==
  [description |-> "Rule metadata not found; update ruleset.",
   clause |-> "unspecified",
   intent_reference |-> "unspecified",
   remediation |-> "Review rule definition."]

\* The entries of the ruleset catalog on disk with the given id.
CatalogEntries(id) ==
  SelectSeq(files.ruleset.json.rules, LAMBDA entry : entry.id = id)

\* What the evaluator reports for the same documents and options under a
\* catalog that describes all ten rules.
WithCompleteMetadata ==
  evaluateTaste(loaded[1].manifest, loaded[1].constitution, loaded[1].intent,
                options, DefaultRuleset, report[1].generated_at)

\* C12: rule-metadata lookup never fails evaluation: each evaluated taste
\* rule carries the description, clause, intent_reference and remediation of
\* the catalog entry with its id when there is one and the placeholder
\* metadata when there is none; either way its id is the evaluator's rule id
\* and its passed flag (and so the length of the report) is what it would be
\* with complete metadata.
C12_MetadataLookupNeverFails ==
  TasteReported =>
    LET rules == report[1].rules
        complete == WithCompleteMetadata.rules
    IN /\ Len(rules) = Len(complete)
       /\ \A i \in 1..Len(rules) :
            /\ rules[i].id = TASTE_RULE_IDS[i]
            /\ rules[i].passed = complete[i].passed
            /\ rules[i].message = complete[i].message
            /\ IF CatalogEntries(rules[i].id) # <<>>
               THEN MetadataOf(rules[i]) = MetadataOf(CatalogEntries(rules[i].id)[1])
               ELSE MetadataOf(rules[i]) = PlaceholderMetadata

\* A report under a partial catalog: its first rule has no entry and has
\* failed with the placeholder, its second rule has one.
C12_Witness ==
  /\ TasteReported
  /\ Len(report[1].rules) = Len(TASTE_RULE_IDS)
  /\ CatalogEntries(TASTE_RULE_IDS[1]) = <<>>
  /\ CatalogEntries(TASTE_RULE_IDS[2]) # <<>>
  /\ ~report[1].rules[1].passed
  /\ MetadataOf(report[1].rules[1]) = PlaceholderMetadata
  /\ MetadataOf(report[1].rules[2]) # PlaceholderMetadata

\* The first rule of the report that did not pass, in evaluation order.
FirstFailingRule ==
  LET rules == report[1].rules
      failing == {i \in 1..Len(rules) : ~rules[i].passed}
  IN rules[Min(failing)]

\* C13: in every adapter run (runTaste, runRendererValidate) that reaches
\* evaluation, the exit code is still 0 until the full report is on disk,
\* and once the run is over the report on disk is the full report and the
\* exit code is 1 if and only if report.status is "failed" (0 on pass); on
\* failure runTaste prints the first entry of errors, which exists and is
\* the first failing rule in evaluation order.
C13_ExitCodeFollowsWrittenReport ==
  report # <<>> =>
    /\ pc \in {"evaluated", "written", "done"}
    /\ pc \in {"evaluated", "written"} => exitCode = 0
    /\ pc \in {"written", "done"} => reportFile = report
    /\ pc = "done" =>
         /\ exitCode \in {0, 1}
         /\ exitCode = 1 <=> report[1].status = "failed"
         /\ (command = "taste" /\ report[1].status = "failed") =>
              /\ Len(report[1].errors) >= 1
              /\ report[1].errors[1] = FirstFailingRule
              /\ console[1] = <<"stderr",
                                "Taste validation failed (" \o FirstFailingRule.id
                                \o "): " \o FirstFailingRule.message
                                \o " | clause=" \o FirstFailingRule.clause
                                \o " intent=" \o FirstFailingRule.intent_reference>>

\* A finished runTaste whose report has two failing rules after a passing
\* one: exit code 1, and the printed rule is the earlier of the two.
C13_Witness ==
  /\ command = "taste"
  /\ pc = "done"
  /\ exitCode = 1
  /\ reportFile = report
  /\ Len(report[1].errors) >= 2
  /\ report[1].rules[1].passed
  /\ Len(console) = 2

\* C14: when both documents are schema-valid, the report of
\* buildRendererValidationReport holds exactly eight rules in the order
\* renderer-manifest.schema, renderer-registry.schema,
\* renderer-contract.declared.rule, renderer-registration.rule,
\* renderer-contract.registry.rule, token-usage.declared.rule,
\* constitution-compliance.rule, deterministic-output.rule, whichever of
\* them fail, and its renderer is the manifest's (name, version, target).
C14_EightRulesInFixedOrder ==
  (RendererReported /\ BothSchemaValid) =>
    LET manifest == files.manifest.json.content
    IN /\ RuleIds(report[1].rules)
            = << "renderer-manifest.schema", "renderer-registry.schema",
                 "renderer-contract.declared.rule", "renderer-registration.rule",
                 "renderer-contract.registry.rule", "token-usage.declared.rule",
                 "constitution-compliance.rule", "deterministic-output.rule" >>
       /\ report[1].renderer = [name |-> manifest.renderer.name,
                                version |-> manifest.renderer.version,
                                target |-> manifest.renderer.target]

\* Every semantic rule has failed and all eight rules are in the report.
C14_Witness ==
  /\ RendererReported
  /\ BothSchemaValid
  /\ Len(report[1].rules) = 8
  /\ Len(report[1].errors) = 6
  /\ ~report[1].rules[3].passed
  /\ ~report[1].rules[8].passed
  /\ report[1].renderer.name = "web-renderer"

\* What renderer-contract.registry.rule reports for the manifest on disk
\* when the registry holds its renderer under another contract id.
ContractMismatchResult ==
  LET m == files.manifest.json.content
  IN registryContractRule(
       m,
       [registry_version |-> "1",
        renderers |-> << [name |-> m.renderer.name,
                          version |-> m.renderer.version,
                          target |-> m.renderer.target,
                          contract_id |-> m.contract.id \o "-other"] >>])

\* The part of C15 on when the rule passes and fails.
RegistryRuleVerdict ==
  LET m == files.manifest.json.content
      rule == report[1].rules[5]
  IN /\ rule.id = "renderer-contract.registry.rule"
     /\ rule.passed =>
          \E i \in 1..Len(MatchingEntries) :
            MatchingEntries[i].contract_id = m.contract.id
     /\ MatchingEntries = <<>> =>
          /\ ~rule.passed
          /\ report[1].rules[4].id = "renderer-registration.rule"
          /\ ~report[1].rules[4].passed

\* C15 (as stated): renderer-contract.registry.rule passes only if a
\* registry entry matches the manifest's (name, version, target) and its
\* contract_id equals manifest.contract.id; when no entry matches, the rule
\* fails, as renderer-registration.rule does, and its message is distinct
\* from the message it carries for a contract-id mismatch.
C15_MissingEntryHasItsOwnMessage ==
  (RendererReported /\ BothSchemaValid) =>
    /\ RegistryRuleVerdict
    /\ MatchingEntries = <<>> =>
         report[1].rules[5].message # ContractMismatchResult.message

\* C15 (amended): renderer-contract.registry.rule passes only if a registry
\* entry matches the manifest's (name, version, target) and its contract_id
\* equals manifest.contract.id; when no entry matches, the rule fails, as
\* renderer-registration.rule does, with the same message as for a
\* contract-id mismatch, and it is its counterexample that is distinct:
\* "Renderer entry missing from registry." instead of the two contract ids.
C15_MissingEntryHasItsOwnCounterexample ==
  (RendererReported /\ BothSchemaValid) =>
    LET m == files.manifest.json.content
        rule == report[1].rules[5]
    IN /\ RegistryRuleVerdict
       /\ MatchingEntries = <<>> =>
            /\ rule.message = ContractMismatchResult.message
            /\ rule.counterexample = JStr("Renderer entry missing from registry.")
            /\ rule.counterexample # ContractMismatchResult.counterexample
       /\ (MatchingEntries # <<>> /\ MatchingEntries[1].contract_id # m.contract.id) =>
            /\ ~rule.passed
            /\ rule.counterexample
                 = JStr("registry.contract_id=" \o MatchingEntries[1].contract_id
                        \o ", manifest.contract.id=" \o m.contract.id)
            /\ rule.counterexample # JStr("Renderer entry missing from registry.")

\* A registry with entries, none of them the manifest's renderer: both
\* registry rules have failed.
C15_Witness ==
  /\ RendererReported
  /\ BothSchemaValid
  /\ Len(files.registry.json.content.renderers) = 2
  /\ MatchingEntries = <<>>
  /\ ~report[1].rules[4].passed
  /\ ~report[1].rules[5].passed
  /\ report[1].rules[5].counterexample = JStr("Renderer entry missing from registry.")

\* What deterministic-output.rule reports for the manifest on disk with its
\* determinism declaration replaced.
DeterminismResultFor(flag, markers) ==
  deterministicOutputRule(
    [files.manifest.json.content EXCEPT
       !.outputs.determinism = [deterministic |-> flag, markers |-> markers]])

\* C16 (as stated): when deterministic-output.rule fails, its message
\* distinguishes the two causes: the message for deterministic = false with
\* no markers differs from the message for deterministic = true with
\* markers.
C16_MessageTellsTheCausesApart ==
  (RendererReported /\ BothSchemaValid) =>
    LET d == files.manifest.json.content.outputs.determinism
        rule == report[1].rules[8]
    IN (~d.deterministic /\ d.markers = <<>>) =>
         /\ ~rule.passed
         /\ rule.message # DeterminismResultFor(TRUE, <<"Date.now">>).message

\* C16 (amended): when deterministic-output.rule fails, its message is the
\* same for both causes; its counterexample tells them apart: it is
\* "deterministic=false" when markers is empty (deterministic being false)
\* and the first marker when markers is non-empty.
C16_CounterexampleTellsTheCausesApart ==
  (RendererReported /\ BothSchemaValid) =>
    LET d == files.manifest.json.content.outputs.determinism
        rule == report[1].rules[8]
    IN /\ rule.id = "deterministic-output.rule"
       /\ ~rule.passed =>
            /\ rule.message = DeterminismResultFor(FALSE, <<>>).message
            /\ rule.message = DeterminismResultFor(TRUE, <<"Date.now">>).message
            /\ rule.counterexample = IF d.markers = <<>>
                                     THEN JStr("deterministic=false")
                                     ELSE JStr(d.markers[1])
            /\ d.markers = <<>> => ~d.deterministic

\* Markers on an output declared deterministic: the rule has failed and
\* names the first marker.
C16_Witness ==
  /\ RendererReported
  /\ BothSchemaValid
  /\ files.manifest.json.content.outputs.determinism.deterministic
  /\ Len(files.manifest.json.content.outputs.determinism.markers) = 2
  /\ ~report[1].rules[8].passed
  /\ report[1].rules[8].counterexample = JStr("Date.now")

\* The entries of the constitution's role table with the given name.
RoleTableEntries(name) ==
  SelectSeq(loaded[1].constitution.typography.roles,
            LAMBDA def : def.name = name)

\* The positions of the declared roles that are not in the role table or
\* whose size is outside their role's [min, max].
RolesOutOfRange ==
  LET declared == loaded[1].manifest.taste.typography.roles
  IN {i \in 1..Len(declared) :
        \/ RoleTableEntries(declared[i].role) = <<>>
        \/ declared[i].size < RoleTableEntries(declared[i].role)[1].min
        \/ declared[i].size > RoleTableEntries(declared[i].role)[1].max}

\* What the rule reports about the declared role at position i.
RangeViolationOf(i) ==
  LET role == loaded[1].manifest.taste.typography.roles[i]
      defs == RoleTableEntries(role.role)
  IN IF defs = <<>>
     THEN "Role '" \o role.role \o "' is not defined in constitution."
     ELSE "Role '" \o role.role \o "' size " \o ToString(role.size)
          \o " outside " \o ToString(defs[1].min) \o "-"
          \o ToString(defs[1].max) \o "."

\* The neighbours of the hierarchy that are both declared, the earlier
\* one smaller than the later one.
NeighboursOutOfOrder ==
  LET declared == loaded[1].manifest.taste.typography.roles
      hierarchy == loaded[1].constitution.typography.hierarchy
  IN {i \in 1..(Len(hierarchy) - 1) :
        /\ sizeByRole(declared, hierarchy[i]).type = "number"
        /\ sizeByRole(declared, hierarchy[i + 1]).type = "number"
        /\ sizeByRole(declared, hierarchy[i]).num
             < sizeByRole(declared, hierarchy[i + 1]).num}

\* C17: typography.hierarchy.rule fails whenever some declared role is not
\* in the constitution's role table or has a size outside that role's
\* [min, max], bounds inclusive; its counterexample then names the first
\* such role in declaration order and says nothing of the ordering, the
\* ordering walk not being performed; the walk decides the rule only when
\* every declared role passes the range check.
C17_RangeCheckComesFirst ==
  (TasteReported /\ Len(report[1].rules) >= 2) =>
    LET rule == report[1].rules[2]
    IN /\ rule.id = "typography.hierarchy.rule"
       /\ RolesOutOfRange # {} =>
            /\ ~rule.passed
            /\ rule.counterexample = JStr(RangeViolationOf(Min(RolesOutOfRange)))
            /\ rule.message = RangeViolationOf(Min(RolesOutOfRange))
       /\ RolesOutOfRange = {} =>
            /\ rule.passed <=> NeighboursOutOfOrder = {}
            /\ ~rule.passed =>
                 \E i \in NeighboursOutOfOrder :
                   rule.counterexample.str
                     = loaded[1].constitution.typography.hierarchy[i] \o " ("
                       \o sizeByRole(loaded[1].manifest.taste.typography.roles,
                                     loaded[1].constitution.typography.hierarchy[i]).str
                       \o ") should not be smaller than "
                       \o loaded[1].constitution.typography.hierarchy[i + 1] \o " ("
                       \o sizeByRole(loaded[1].manifest.taste.typography.roles,
                                     loaded[1].constitution.typography.hierarchy[i + 1]).str
                       \o ")."

\* Two roles out of range that are also out of order: the rule names the
\* first declared one and not the order.
C17_Witness ==
  /\ TasteReported
  /\ Len(report[1].rules) >= 2
  /\ loaded[1].manifest.taste.typography.roles
       = << [role |-> "body", size |-> 20], [role |-> "h1", size |-> 12] >>
  /\ loaded[1].constitution.typography.hierarchy = <<"h1", "body">>
  /\ RolesOutOfRange = {2}
  /\ NeighboursOutOfOrder = {1}
  /\ report[1].rules[2].counterexample = JStr("Role 'h1' size 12 outside 16-20.")

\* Override when present, else the constitution's list, else empty, as a
\* list.
PermittedList(pattern) ==
  IF OverrideFor(pattern) # <<>> THEN OverrideFor(pattern)[1]
  ELSE IF ConstitutionListFor(pattern) # <<>> THEN ConstitutionListFor(pattern)[1]
  ELSE <<>>

\* What is wrong with a declared usage: "" when it is authorized.
UsageViolation(entry) ==
  LET policy == loaded[1].constitution.patterns
  IN IF policy.type \in {"undefined", "null"}
     THEN "Constitution patterns not provided; cannot authorize usage."
     ELSE IF \A k \in 1..Len(policy.allowed) : policy.allowed[k] # entry.pattern
     THEN "Pattern '" \o entry.pattern \o "' is not allowed by constitution."
     ELSE IF \A k \in 1..Len(PermittedList(entry.pattern)) :
               PermittedList(entry.pattern)[k] # entry.intent
     THEN "Pattern '" \o entry.pattern \o "' not permitted for intent '"
          \o entry.intent \o "'. Allowed: " \o Join(PermittedList(entry.pattern), ", ")
     ELSE ""

\* The positions of the declared usages that violate.
ViolatingUsages ==
  LET usage == loaded[1].manifest.taste.patterns.usage
  IN {i \in 1..Len(usage) : UsageViolation(usage[i]) # ""}

\* C18: patterns.intent.rule fails if and only if some declared usage
\* violates (every usage when the constitution has no patterns policy, else
\* one whose pattern is not in the allowed set or whose intent is not
\* permitted); it reports the first violating usage in declaration order
\* and only that one, the same whatever failFast and verbose are; and
\* whenever the rule is in a report it is the last entry of rules.
C18_PatternsRuleReportsFirstViolation ==
  TasteReported =>
    LET rules == report[1].rules
        usage == loaded[1].manifest.taste.patterns.usage
    IN /\ \A i \in 1..Len(rules) :
            rules[i].id = "patterns.intent.rule" => i = Len(rules)
       /\ Len(rules) = Len(TASTE_RULE_IDS) =>
            /\ rules[10].id = "patterns.intent.rule"
            /\ rules[10].passed <=> ViolatingUsages = {}
            /\ ~rules[10].passed =>
                 /\ rules[10].message = UsageViolation(usage[Min(ViolatingUsages)])
                 /\ rules[10].counterexample
                      = JStr(UsageViolation(usage[Min(ViolatingUsages)]))
            /\ \A failFast, verbose \in BOOLEAN :
                 LET other == evaluateTaste(
                                loaded[1].manifest, loaded[1].constitution,
                                loaded[1].intent,
                                [failFast |-> JBool(failFast), verbose |-> JBool(verbose)],
                                files.ruleset.json, report[1].generated_at).rules
                 IN Len(other) = Len(TASTE_RULE_IDS) => other[10] = rules[10]

\* Fail-fast is on and two different usages violate: the rule is the last
\* of ten and names the first usage.
C18_Witness ==
  /\ TasteReported
  /\ EffectiveFailFast
  /\ ~EffectiveVerbose
  /\ Len(report[1].rules) = Len(TASTE_RULE_IDS)
  /\ ViolatingUsages = {1, 2}
  /\ loaded[1].manifest.taste.patterns.usage
       = << [pattern |-> "toast", intent |-> "confirm"],
            [pattern |-> "modal", intent |-> "alert"] >>
  /\ report[1].rules[10].message = "Pattern 'toast' is not allowed by constitution."

ConsistencyAxes == <<"radius", "elevation", "motion">>

\* Whether the declared values of an axis break its band's max_variance.
AxisViolates(axis) ==
  LET band == loaded[1].constitution.consistency[axis]
      values == loaded[1].manifest.taste.consistency[axis]
  IN /\ band.max_variance.type = "number"
     /\ values # <<>>
     /\ IF \A i \in 1..Len(values) : values[i].type = "number"
        THEN \E i, j \in 1..Len(values) :
               values[i].num - values[j].num > band.max_variance.num
        ELSE /\ \E i, j \in 1..Len(values) : values[i].str # values[j].str
             /\ band.max_variance.num = 0

\* The violation of an axis as it is reported.
AxisViolationText(axis) ==
  LET band == loaded[1].constitution.consistency[axis]
      values == loaded[1].manifest.taste.consistency[axis]
      spread == CHOOSE d \in {values[i].num - values[j].num :
                                i, j \in 1..Len(values)} :
                  \A i, j \in 1..Len(values) : values[i].num - values[j].num <= d
  IN IF values[1].type = "number"
     THEN "variance " \o ToString(spread) \o " exceeds max_variance "
          \o ToString(band.max_variance.num)
     ELSE "multiple values present but max_variance is "
          \o ToString(band.max_variance.num)

\* C19: consistency.variance.rule passes if and only if no axis among
\* radius, elevation and motion violates its band: a numeric axis violates
\* when (max - min) of its declared values exceeds the band's max_variance,
\* a string-valued axis when it has more than one distinct value and
\* max_variance is zero; an axis whose band has no max_variance or whose
\* value list is empty never violates; the reported violation is that of
\* the first violating axis in the order radius, elevation, motion.
C19_ConsistencyVarianceRule ==
  (TasteReported /\ Len(report[1].rules) >= 9) =>
    LET rule == report[1].rules[9]
        violating == {k \in 1..Len(ConsistencyAxes) : AxisViolates(ConsistencyAxes[k])}
    IN /\ rule.id = "consistency.variance.rule"
       /\ rule.passed <=> violating = {}
       /\ ~rule.passed =>
            /\ rule.message = AxisViolationText(ConsistencyAxes[Min(violating)])
            /\ rule.counterexample
                 = JStr(AxisViolationText(ConsistencyAxes[Min(violating)]))

\* Radius and elevation both exceed their variance: the rule reports the
\* radius.
C19_Witness ==
  /\ TasteReported
  /\ Len(report[1].rules) >= 9
  /\ AxisViolates("radius")
  /\ AxisViolates("elevation")
  /\ ~report[1].rules[9].passed
  /\ report[1].rules[9].message = "variance 12 exceeds max_variance 4"

\* A rule result carries a counterexample, a text, exactly when it did not
\* pass.
CounterexampleIffFailed(rule) ==
  /\ rule.passed <=> rule.counterexample.type = "undefined"
  /\ ~rule.passed => rule.counterexample.type = "string"

\* C20: in every rule result of every report of either evaluator, in rules
\* and in errors, a counterexample is present if and only if passed is
\* false: no passing rule carries one, and every failing rule (schema rule,
\* semantic contract rule or taste rule) carries one, a text naming what
\* was wrong.
C20_CounterexampleIffFailed ==
  report # <<>> =>
    /\ \A i \in 1..Len(report[1].rules) : CounterexampleIffFailed(report[1].rules[i])
    /\ \A i \in 1..Len(report[1].errors) : CounterexampleIffFailed(report[1].errors[i])

\* A full taste report with passing rules and failing rules side by side.
C20_Witness ==
  /\ TasteReported
  /\ Len(report[1].rules) = Len(TASTE_RULE_IDS)
  /\ Len(report[1].errors) \in 2..8
  /\ \E i, j \in 1..Len(report[1].rules) :
       /\ report[1].rules[i].passed
       /\ report[1].rules[i].counterexample = Undefined
       /\ ~report[1].rules[j].passed
       /\ report[1].rules[j].counterexample = JStr(report[1].rules[j].message)

\* The documents and schemas the command of this run requires.
RequiredFiles == IF command = "taste" THEN TasteFiles ELSE RendererFiles

\* The required files that are not on disk, in the order they are looked
\* for.
FilesNotLocated ==
  SelectSeq(RequiredFiles, LAMBDA name : files[name].type # "file")

\* C21: in both adapters, if a required document or schema cannot be
\* located (manifest, constitution, intent, ruleset; or manifest, registry
\* and the two schemas), the run goes from its start to a thrown error and
\* no further: no document is read, no rule is evaluated, no report exists
\* or is written, nothing is printed and the exit code is left as it was;
\* the thrown error names the first file that is missing.  A run whose
\* files are all there throws nothing.
C21_MissingFileAbortsBeforeAnything ==
  /\ FilesNotLocated # <<>> =>
       /\ pc \in {"start", "thrown"}
       /\ loaded = <<>>
       /\ report = <<>>
       /\ reportFile = <<>>
       /\ console = <<>>
       /\ exitCode = 0
       /\ pc = "thrown" =>
            thrown = IF command = "taste"
                     THEN tasteNotFound(FilesNotLocated[1])
                     ELSE rendererNotFound(FilesNotLocated[1])
  /\ FilesNotLocated = <<>> => (pc # "thrown" /\ thrown = "")

\* runRendererValidate has thrown on the registry schema, the only file
\* that is missing.
C21_Witness ==
  /\ command = "renderer-validate"
  /\ FilesNotLocated = <<"registrySchema">>
  /\ pc = "thrown"
  /\ thrown = "Renderer registry schema missing at contracts/renderer-registry.schema.json."
  /\ report = <<>>
  /\ exitCode = 0

\* This run stops at the first failing rule.
FailFastRun == EffectiveFailFast /\ ~EffectiveVerbose

\* The report of evaluateTaste on the documents of this run under other
\* options.
ReportUnder(failFast, verbose) ==
  evaluateTaste(loaded[1].manifest, loaded[1].constitution, loaded[1].intent,
                [failFast |-> JBool(failFast), verbose |-> JBool(verbose)],
                files.ruleset.json, report[1].generated_at)

\* The fail-fast report and the verbose report of the same documents: one
\* is the report of this run, the other the report under the other options.
FailFastReport == IF FailFastRun THEN report[1] ELSE ReportUnder(TRUE, FALSE)

VerboseReport == IF FailFastRun THEN ReportUnder(TRUE, TRUE) ELSE report[1]

\* C22: for the same manifest, constitution, intent and ruleset, the rules
\* of the fail-fast report (failFast = true, verbose = false) are a prefix
\* of the rules of the verbose report, entry for entry, ending at the first
\* failing rule of the verbose report, or the whole list when no rule
\* fails; so a fail-fast report has at most one error, its last rule, and
\* the two reports have the same status.
C22_FailFastIsPrefixOfVerbose ==
  TasteReported =>
    LET short == FailFastReport.rules
        long == VerboseReport.rules
        failing == {i \in 1..Len(long) : ~long[i].passed}
    IN /\ Len(long) = Len(TASTE_RULE_IDS)
       /\ Len(short) = IF failing = {} THEN Len(long) ELSE Min(failing)
       /\ short = SubSeq(long, 1, Len(short))
       /\ Len(FailFastReport.errors) <= 1
       /\ Len(FailFastReport.errors) = 1 =>
            FailFastReport.errors[1] = short[Len(short)]
       /\ FailFastReport.status = VerboseReport.status

\* A fail-fast run that stopped at its fourth rule, two more rules failing
\* in the verbose report of the same documents.
C22_Witness ==
  /\ TasteReported
  /\ FailFastRun
  /\ Len(report[1].rules) = 4
  /\ Len(report[1].errors) = 1
  /\ Len(VerboseReport.errors) = 3
  /\ VerboseReport.status = "failed"

\* Values of the constitution's density.max_interactions_per_view, below
\* and above the interaction counts and intent limits of the runs.
OtherConstitutionLimits == {0, 4}

\* The report of evaluateTaste on the documents and options of this run,
\* the constitution's density limit replaced.
ReportWithConstitutionLimit(limit) ==
  evaluateTaste(loaded[1].manifest,
                [loaded[1].constitution EXCEPT
                   !.density.max_interactions_per_view = limit],
                loaded[1].intent, options, files.ruleset.json,
                report[1].generated_at)

\* C23: the outcome of density.limit.rule and of the whole taste report
\* does not depend on the constitution's density.max_interactions_per_view:
\* evaluations that differ only in that field have the same rules, errors
\* and status; a manifest whose interaction count exceeds the constitution's
\* limit but not the intent's limit passes density.limit.rule.
C23_ConstitutionDensityIsNotRead ==
  TasteReported =>
    /\ \A limit \in OtherConstitutionLimits :
         /\ ReportWithConstitutionLimit(limit).rules = report[1].rules
         /\ ReportWithConstitutionLimit(limit).errors = report[1].errors
         /\ ReportWithConstitutionLimit(limit).status = report[1].status
    /\ (/\ Len(report[1].rules) >= 7
        /\ ~IntentHasNoLimit
        /\ loaded[1].manifest.taste.density.interactions_per_view
             > loaded[1].constitution.density.max_interactions_per_view
        /\ loaded[1].manifest.taste.density.interactions_per_view
             <= loaded[1].intent.density.max_interactions_per_view.num)
       => report[1].rules[7].passed

\* Two interactions per view, the constitution allowing one and the intent
\* two: the report has passed.
C23_Witness ==
  /\ TasteReported
  /\ loaded[1].manifest.taste.density.interactions_per_view = 2
  /\ loaded[1].constitution.density.max_interactions_per_view = 1
  /\ ~IntentHasNoLimit
  /\ loaded[1].intent.density.max_interactions_per_view = JNum(2)
  /\ Len(report[1].rules) = Len(TASTE_RULE_IDS)
  /\ report[1].rules[7].passed
  /\ report[1].status = "passed"

====
